---------------------------- MODULE Spec2Model ----------------------------
(***************************************************************************)
(* A model of the p2pool coordinator (src/src/p2pool.cpp): the main-chain  *)
(* index, the daemon bootstrap, the ZMQ handlers, the template rebuild and *)
(* the block submission.                                                   *)
(*                                                                         *)
(* Numbers.  Heights, ids, timestamps and nonces are uint64_t / uint32_t   *)
(* in the source.  Every value the model builds stays below 2^31, so the   *)
(* additions of the source never overflow here.  The only subtractions     *)
(* that can wrap (seed_height - 2048, seed_height - 4096 in                *)
(* cleanup_mainchain_data) are kept as their negative representative       *)
(* x - 2^64: such a value differs from every height of the model, exactly  *)
(* as the wrapped value 2^64 - k differs from every height below 2^63.     *)
(*                                                                         *)
(* Wall-clock fields (m_startTime, m_zmqLastActive, MinerData::            *)
(* time_received) and log output are not part of the state.                *)
(***************************************************************************)
EXTENDS Integers, FiniteSets, Sequences, TLC

\* ------------------------------------------------------------- constants
BLOCK_HEADERS_REQUIRED == 720
SEEDHASH_EPOCH_BLOCKS == 2048
SEEDHASH_EPOCH_LAG == 64
PRUNE_DISTANCE == BLOCK_HEADERS_REQUIRED
\* TIMESTAMP_WINDOW is declared outside p2pool.cpp
TIMESTAMP_WINDOW == 60
\* the lowest RPC version parse_get_version_rpc accepts (0x30008)
MIN_RPC_VERSION == 196616

\* The all-zero hash (a default-constructed hash).
ZeroHash == 0

\* A default-constructed ChainMain, as std::map::operator[] inserts it.
DefaultChainMain ==
  [height |-> 0, id |-> ZeroHash, timestamp |-> 0, reward |-> 0, difficulty |-> 0]

\* A seed height that forgets the lag of SEEDHASH_EPOCH_LAG + 1 blocks.
get_seed_height_no_lag(height) ==
  IF height > SEEDHASH_EPOCH_LAG
    THEN height - (height % SEEDHASH_EPOCH_BLOCKS)
    ELSE 0

\* get_seed_height: x & ~(SEEDHASH_EPOCH_BLOCKS - 1) clears the low 11 bits
\* of x, that is, takes x down to the multiple of 2048 below it.
get_seed_height(height) ==
  IF height > SEEDHASH_EPOCH_LAG
    THEN (height - SEEDHASH_EPOCH_LAG - 1)
           - ((height - SEEDHASH_EPOCH_LAG - 1) % SEEDHASH_EPOCH_BLOCKS)
    ELSE 0

\* ------------------------------------------------------------ the daemon
\* The chain the daemon serves.  Fork 0 is the main chain; fork 1 is a
\* competing block of the same height (a reorg).
Forks == {0, 1}
BlockId(h, f) == 2 * h + f + 1
BlockTimestamp(h) == 1000000 + 120 * h
BlockReward(h) == 600000
BlockDifficulty(h) == 300000 + h

DaemonHeader(h, f) ==
  [height |-> h, id |-> BlockId(h, f), timestamp |-> BlockTimestamp(h),
   reward |-> BlockReward(h), difficulty |-> BlockDifficulty(h)]

\* A transaction of the daemon's pool (TxMempoolData).
Tx(n) == [id |-> n, weight |-> 1500, fee |-> 30000]

\* The tx_backlog of the miner data for height h on fork f: ids that no
\* other miner data and no txpool_add message carries.
Backlog(h, f) == { Tx(100 + BlockId(h, f)) }

\* A default-constructed MinerData (m_minerData after the constructor).
DefaultMinerData ==
  [major_version |-> 0, height |-> 0, prev_id |-> ZeroHash, seed_hash |-> ZeroHash,
   median_weight |-> 0, already_generated_coins |-> 0, difficulty |-> 0,
   tx_backlog |-> {}, median_timestamp |-> 0]

\* The miner data the daemon sends for height h on top of fork f.
DaemonMinerData(h, f) ==
  [major_version |-> 14, height |-> h, prev_id |-> BlockId(h - 1, f),
   seed_hash |-> BlockId(get_seed_height(h), 0),
   median_weight |-> 300000, already_generated_coins |-> 1000,
   difficulty |-> BlockDifficulty(h),
   tx_backlog |-> Backlog(h, f), median_timestamp |-> 0]

\* The heights get_miner_data answers with during the bootstrap.  721 is
\* the lowest height whose header range starts above the genesis block (the
\* seed height is then 0); at 7000 the seed heights are 6144, 4096 and 2048,
\* all below the 720 headers of the range and all above the genesis block.
BootHeights == {721, 7000}

\* The height at which the steady state of the model begins.
SteadyHeight == CHOOSE h \in BootHeights : \A g \in BootHeights : g <= h

\* How far above SteadyHeight the ZMQ messages of the model reach.
MaxAdvance == 3

\* ----------------------------------------------------- main-chain index
\* std::map::operator[] followed by an assignment of the whole value
MapPut(m, k, v) == [x \in DOMAIN m \cup {k} |-> IF x = k THEN v ELSE m[x]]

\* std::map::operator[]: the value at k, default-constructed when absent
MapAt(m, k) == IF k \in DOMAIN m THEN m[k] ELSE DefaultChainMain

\* std::map::erase of a set of keys
MapErase(m, ks) == [x \in DOMAIN m \ ks |-> m[x]]

\* The three seed heights cleanup_mainchain_data keeps.
cleanup_seed_heights(height) ==
  { get_seed_height(height),
    get_seed_height(height) - SEEDHASH_EPOCH_BLOCKS,
    get_seed_height(height) - SEEDHASH_EPOCH_BLOCKS * 2 }

\* A cleanup that starts SEEDHASH_EPOCH_LAG heights too low.
cleanup_erased_lagged(byHeight, height) ==
  { h \in DOMAIN byHeight :
      /\ h + PRUNE_DISTANCE + SEEDHASH_EPOCH_LAG < height
      /\ h \notin cleanup_seed_heights(height) }

\* The keys the loop of cleanup_mainchain_data erases: it walks the ordered
\* map upwards and stops at the first key h with h + PRUNE_DISTANCE >= height,
\* so it visits exactly the keys below that.
cleanup_erased(byHeight, height) ==
  { h \in DOMAIN byHeight :
      /\ h + PRUNE_DISTANCE < height
      /\ h \notin cleanup_seed_heights(height) }

\* cleanup_mainchain_data: <<by height, by hash>> after the walk.
cleanup_mainchain_data(byHeight, byHash, height) ==
  LET gone == cleanup_erased(byHeight, height)
  IN  << MapErase(byHeight, gone),
         MapErase(byHash, { byHeight[h].id : h \in gone }) >>

\* handle_miner_data, lines 195-205: the writes under the write lock that
\* come before the cleanup.  <<by height, by hash>> afterwards.
miner_data_writes(byHeight, byHash, data) ==
  LET tip == [MapAt(byHeight, data.height) EXCEPT !.difficulty = data.difficulty]
      h1  == MapPut(byHeight, data.height, tip)
      c   == [MapAt(h1, data.height - 1) EXCEPT
                !.height = data.height - 1, !.id = data.prev_id,
                !.timestamp = 0, !.reward = 0]
  IN  << MapPut(h1, data.height - 1, c), MapPut(byHash, c.id, c) >>

\* handle_miner_data, lines 192-208 as a whole: the writes, then
\* cleanup_mainchain_data(data.height).
miner_data_index(byHeight, byHash, data) ==
  LET w == miner_data_writes(byHeight, byHash, data)
  IN  cleanup_mainchain_data(w[1], w[2], data.height)

\* handle_chain_main, the block under the write lock (lines 287-299):
\* the entry written to both maps.
chain_main_entry(byHeight, data) ==
  [MapAt(byHeight, data.height) EXCEPT
     !.height = data.height, !.timestamp = data.timestamp, !.reward = data.reward]

chain_main_index(byHeight, byHash, data) ==
  LET c == chain_main_entry(byHeight, data)
  IN  << MapPut(byHeight, data.height, c), MapPut(byHash, c.id, c) >>

\* parse_block_header, the insert under the write lock (lines 921-925)
insert_header(byHeight, byHash, c) ==
  << MapPut(byHeight, c.height, c), MapPut(byHash, c.id, c) >>

\* parse_block_headers_range, the loop over the parsed headers (lines
\* 958-976): every header is written to both maps.  The headers of one
\* response are those of the count consecutive heights from first upwards
\* on the daemon's main chain, so no two of them share a height or an id and
\* the order of the writes does not show in the result.
BlockIdHeight(id) == (id - 1) \div 2

insert_headers(byHeight, byHash, first, count) ==
  LET hs  == first..(first + count - 1)
      ids == { BlockId(h, 0) : h \in hs }
  IN  << [x \in DOMAIN byHeight \cup hs |->
            IF x \in hs THEN DaemonHeader(x, 0) ELSE byHeight[x]],
         [x \in DOMAIN byHash \cup ids |->
            IF x \in ids THEN DaemonHeader(BlockIdHeight(x), 0) ELSE byHash[x]] >>

\* The keys at or below h, highest first, at most n of them: the walk of
\* get_timestamps from end() backwards.
\* the key before end() of an ordered map with the keys dom
last_key(dom) == CHOOSE h \in dom : \A g \in dom : g <= h

RECURSIVE keys_down(_, _, _)
keys_down(dom, h, n) ==
  IF n = 0 \/ h < 0 THEN << >>
  ELSE IF h \in dom THEN << h >> \o keys_down(dom, h - 1, n - 1)
  ELSE keys_down(dom, h - 1, n)

\* A get_timestamps that gives up only below TIMESTAMP_WINDOW entries.
get_timestamps_strict(byHeight) ==
  IF Cardinality(DOMAIN byHeight) < TIMESTAMP_WINDOW
    THEN << FALSE, << >> >>
    ELSE LET ks == keys_down(DOMAIN byHeight, last_key(DOMAIN byHeight), TIMESTAMP_WINDOW)
         IN  << TRUE, [i \in 1..Len(ks) |-> byHeight[ks[i]].timestamp] >>

\* get_timestamps: << ok, timestamps >>, the timestamps of the
\* TIMESTAMP_WINDOW highest heights, highest height first.
get_timestamps(byHeight) ==
  IF Cardinality(DOMAIN byHeight) <= TIMESTAMP_WINDOW
    THEN << FALSE, << >> >>
    ELSE LET ks == keys_down(DOMAIN byHeight, last_key(DOMAIN byHeight), TIMESTAMP_WINDOW)
         IN  << TRUE, [i \in 1..Len(ks) |-> byHeight[ks[i]].timestamp] >>

\* a[k] (k counted from 0) of the sequence a sorted ascending
sorted_at(a, k) ==
  CHOOSE v \in { a[i] : i \in 1..Len(a) } :
    /\ Cardinality({ i \in 1..Len(a) : a[i] < v }) <= k
    /\ Cardinality({ i \in 1..Len(a) : a[i] <= v }) > k

\* update_median_timestamp: the value written to m_minerData.median_timestamp
update_median_timestamp(byHeight) ==
  LET r == get_timestamps(byHeight)
  IN  IF ~r[1] THEN 0
      ELSE (sorted_at(r[2], TIMESTAMP_WINDOW \div 2)
              + sorted_at(r[2], TIMESTAMP_WINDOW \div 2 + 1)) \div 2

\* api_update_network_stats / api_update_stats_mod (lines 988-992 and
\* 1053-1057): "m_mainchainByHash[m_minerData.prev_id]" is std::map::
\* operator[], which inserts a default-constructed entry when the key is
\* absent.  Nothing is done when m_api is null.
api_tip_lookup(api, byHash, prev_id) ==
  IF api /\ prev_id \notin DOMAIN byHash
    THEN MapPut(byHash, prev_id, DefaultChainMain)
    ELSE byHash

\* ------------------------------------------------------------- the state
VARIABLES
  process,            \* "init" (constructed), "running", or "panic_<where>"
  apiEnabled,         \* m_api != nullptr
  sideChainNetwork,   \* m_sideChain->network_type()
  rpc,                \* the JSON-RPC requests in flight
  issued,             \* history: the request methods issued so far
  seen,               \* history: what the answers so far have shown
  mainchainByHeight,  \* m_mainchainByHeight
  mainchainByHash,    \* m_mainchainByHash
  minerData,          \* m_minerData
  updateSeed,         \* m_updateSeed
  mempool,            \* m_mempool->m_transactions
  hasher,             \* what m_hasher was told: set_seed_async, set_old_seed
  blockTemplate,      \* what BlockTemplate::update was last handed
  serversStarted,     \* m_serversStarted
  servers,            \* how often each of the three servers was created
  foundBlocks,        \* m_foundBlocks
  ledger,             \* the file p2pool.blocks
  apiBlocks,          \* what m_api holds as "blocks" of the category POOL
  zmq,                \* the ZMQ reader thread: the statement it is at, its message
  zmqEvents,          \* how many ZMQ messages have been handed over so far
  stored,             \* history: the MinerData values "m_minerData = data" stored
  blockTemplateAsync, \* m_blockTemplateAsync has a wake-up pending
  submitBlockData,    \* m_submitBlockData
  submitCaller,       \* the threads inside submit_block_async, before uv_async_send
  submitCalls,        \* how many submit_block_async calls have begun so far
  submitPosted,       \* history: the submit data every submit_block_async call stored
  submitBlockAsync,   \* m_submitBlockAsync has a wake-up pending
  submitInFlight,     \* the submit_block requests the daemon has not answered
  submitSent,         \* history: the params of every submit_block request sent
  fnInput,            \* the arguments of a function applied on its own
  fnOutput,           \* what that function returned
  stopAsync,          \* m_stopAsync has a wake-up pending
  asyncHandles,       \* the wakes of the loop that are not closed
  signalHandles,      \* the signals whose uv_signal_t is started
  caught,             \* history: the signals on_signal was called with
  teardown,           \* history: what run() has done since uv_run returned
  bkgJobs,            \* the background jobs bkg_jobs_tracker counts
  templateSignals,    \* history: how often update_block_template_async was called
  templateRuns        \* history: the runs of update_block_template

procVars   == << process, apiEnabled, sideChainNetwork >>
rpcVars    == << rpc, issued, seen >>
indexVars  == << mainchainByHeight, mainchainByHash >>
tmplVars   == << minerData, updateSeed, mempool, hasher, blockTemplate >>
srvVars    == << serversStarted, servers >>
ledgerVars == << foundBlocks, ledger, apiBlocks >>
zmqVars    == << zmq, zmqEvents, stored, blockTemplateAsync >>
submitVars == << submitBlockData, submitCaller, submitCalls, submitPosted,
                 submitBlockAsync, submitInFlight, submitSent >>
fnVars     == << fnInput, fnOutput >>
stopVars   == << stopAsync, asyncHandles, signalHandles, caught, teardown, bkgJobs >>
wakeVars   == << templateSignals, templateRuns >>

vars == << procVars, rpcVars, indexVars, tmplVars, srvVars, ledgerVars, zmqVars,
           submitVars, fnVars, stopVars, wakeVars >>

Networks == {"Mainnet", "Testnet", "Stagenet"}

\* The ZMQ reader thread between two messages.
ZmqIdle == [pc |-> "idle", type |-> "none", data |-> DefaultChainMain, ours |-> FALSE]

\* m_submitBlockData{} (line 52): a blob is a sequence of bytes.
DefaultSubmitBlockData == [template_id |-> 0, nonce |-> 0, extra_nonce |-> 0, blob |-> << >>]

\* A found block as the ledger file holds it.
LedgerRecord ==
  [timestamp |-> 1590000, height |-> 4000, id |-> BlockId(4000, 0),
   block_diff |-> BlockDifficulty(4000), total_hashes |-> 77]

Ledgers ==
  { [exists |-> FALSE, records |-> << >>],
    [exists |-> TRUE, records |-> << LedgerRecord >>] }

\* Nothing has been set as "blocks" of the category POOL yet.
NotPublished == [published |-> FALSE, blocks |-> << >>]

\* api_update_block_found, lines 1152-1178: the last min(size, 51) entries
\* of m_foundBlocks, written from rbegin() to rend().
api_pool_blocks(fb) ==
  LET n == IF Len(fb) < 51 THEN Len(fb) ELSE 51
  IN  [i \in 1..n |-> fb[Len(fb) - i + 1]]

\* The three wakes the constructor initialises (lines 85-104).
AsyncHandles == {"m_submitBlockAsync", "m_blockTemplateAsync", "m_stopAsync"}

\* The signals init_signals starts a handle for (lines 1235-1241), on a
\* platform that has SIGUSR1 and no SIGBREAK.
Signals == {"SIGHUP", "SIGINT", "SIGTERM", "SIGUSR1"}

\* m_api->set(p2pool_api::Category::POOL, "blocks", ...), lines 1161-1178
api_set_blocks(fb) == [published |-> TRUE, blocks |-> api_pool_blocks(fb)]

\* The state the constructor leaves (lines 47-54), before run().
Init ==
  /\ process = "init"
  /\ apiEnabled \in BOOLEAN
  /\ sideChainNetwork \in Networks
  /\ rpc = {}
  /\ issued = {}
  /\ seen = {}
  /\ mainchainByHeight = << >>
  /\ mainchainByHash = << >>
  /\ minerData = DefaultMinerData
  /\ updateSeed = TRUE
  /\ mempool = {}
  /\ hasher = [seed_set |-> FALSE, seed |-> ZeroHash,
               old_seed_set |-> FALSE, old_seed |-> ZeroHash]
  /\ blockTemplate = [updated |-> FALSE, miner_data |-> DefaultMinerData, mempool |-> {}]
  /\ serversStarted = 0
  /\ servers = [zmq |-> 0, stratum |-> 0, p2p |-> 0]
  /\ foundBlocks = << >>
  /\ ledger \in Ledgers
  /\ apiBlocks = NotPublished
  /\ zmq = ZmqIdle
  /\ zmqEvents = 0
  /\ stored = << >>
  /\ blockTemplateAsync = FALSE
  /\ submitBlockData = DefaultSubmitBlockData
  /\ submitCaller = 0
  /\ submitCalls = 0
  /\ submitPosted = << >>
  /\ submitBlockAsync = FALSE
  /\ submitInFlight = 0
  /\ submitSent = << >>
  /\ fnInput = << >>
  /\ fnOutput = << >>
  /\ stopAsync = FALSE
  /\ asyncHandles = AsyncHandles
  /\ signalHandles = {}
  /\ caught = << >>
  /\ teardown = << >>
  /\ bkgJobs = 0
  /\ templateSignals = 0
  /\ templateRuns = << >>

\* The constructed coordinator a function is applied in, taken on its own.
FnStateWith(api, byHeight, lg) ==
  /\ process = "init"
  /\ apiEnabled = api
  /\ sideChainNetwork = "Mainnet"
  /\ rpc = {}
  /\ issued = {}
  /\ seen = {}
  /\ mainchainByHeight = byHeight
  /\ mainchainByHash = << >>
  /\ minerData = DefaultMinerData
  /\ updateSeed = TRUE
  /\ mempool = {}
  /\ hasher = [seed_set |-> FALSE, seed |-> ZeroHash,
               old_seed_set |-> FALSE, old_seed |-> ZeroHash]
  /\ blockTemplate = [updated |-> FALSE, miner_data |-> DefaultMinerData, mempool |-> {}]
  /\ serversStarted = 0
  /\ servers = [zmq |-> 0, stratum |-> 0, p2p |-> 0]
  /\ foundBlocks = << >>
  /\ ledger = lg
  /\ apiBlocks = NotPublished
  /\ zmq = ZmqIdle
  /\ zmqEvents = 0
  /\ stored = << >>
  /\ blockTemplateAsync = FALSE
  /\ submitBlockData = DefaultSubmitBlockData
  /\ submitCaller = 0
  /\ submitCalls = 0
  /\ submitPosted = << >>
  /\ submitBlockAsync = FALSE
  /\ submitInFlight = 0
  /\ submitSent = << >>
  /\ stopAsync = FALSE
  /\ asyncHandles = AsyncHandles
  /\ signalHandles = {}
  /\ caught = << >>
  /\ teardown = << >>
  /\ bkgJobs = 0
  /\ templateSignals = 0
  /\ templateRuns = << >>

FnStateOver(api, byHeight) ==
  FnStateWith(api, byHeight, [exists |-> FALSE, records |-> << >>])

FnState == FnStateOver(FALSE, << >>)

\* ------------------------------------------------------------- JSON-RPC
\* JSONRPCRequest::call: the request is in flight until the daemon answers
\* it (the first callback) or the transport fails (the second callback,
\* with size > 0).  Both callbacks run on the loop thread.
\* height: the height asked for (current_height for a range); n: which of the
\* two seed requests of download_block_headers (0: none of them); prev: the
\* prev_seed_height that callback captured.
Req(method, height, n) == [method |-> method, height |-> height, n |-> n, prev |-> 0]
SeedReq(height, n, prev) ==
  [method |-> "get_block_header_by_height", height |-> height, n |-> n, prev |-> prev]

\* panic(): the process ends; nothing runs afterwards.
panic(where) == process' = where

Running == process = "running"

\* update_block_template (lines 515-524) on the state given:
\* << hasher, m_updateSeed, block template, by hash >> afterwards.
update_block_template(md, mp, us, hs, byHash) ==
  << IF us THEN [hs EXCEPT !.seed_set = TRUE, !.seed = md.seed_hash] ELSE hs,
     FALSE,
     [updated |-> TRUE, miner_data |-> md, mempool |-> mp],
     api_tip_lookup(apiEnabled, byHash, md.prev_id) >>

\* An update_block_template that tells the hasher last.
update_block_template_calls_seed_last(us, stratum) ==
  << "BlockTemplate::update" >>
    \o (IF stratum THEN << "StratumServer::on_block" >> ELSE << >>)
    \o << "api_update_pool_stats" >>
    \o (IF us THEN << "RandomX_Hasher::set_seed_async" >> ELSE << >>)

\* The calls one run of update_block_template makes, in their order
\* (lines 517-523); stratum_on_block (lines 654-656) calls on_block only when
\* m_stratumServer is there.
update_block_template_calls(us, stratum) ==
  (IF us THEN << "RandomX_Hasher::set_seed_async" >> ELSE << >>)
    \o << "BlockTemplate::update" >>
    \o (IF stratum THEN << "StratumServer::on_block" >> ELSE << >>)
    \o << "api_update_pool_stats" >>

\* What the history keeps of one run: who ran it ("wake" for the callback
\* of m_blockTemplateAsync, "inline" for handle_miner_data on the loop
\* thread), how many signals had been sent when it started, and its calls.
template_run(by, us) ==
  [by |-> by, signals |-> templateSignals,
   calls |-> update_block_template_calls(us, servers.stratum > 0)]

\* ------------------------------------------------------------ bootstrap
InfoResponses ==
  { [kind |-> k, busy_syncing |-> FALSE, synchronized |-> FALSE,
     mainnet |-> FALSE, testnet |-> FALSE, stagenet |-> FALSE] :
       k \in {"no_result", "bad_fields"} }
  \cup [kind : {"info"}, busy_syncing : BOOLEAN, synchronized : BOOLEAN,
        mainnet : BOOLEAN, testnet : BOOLEAN, stagenet : BOOLEAN]

VersionResponses ==
  { [kind |-> k, status |-> "", version |-> 0] : k \in {"no_result", "bad_fields"} }
  \cup [kind : {"version"}, status : {"OK", "BUSY"},
        version : {MIN_RPC_VERSION - 1, MIN_RPC_VERSION, MIN_RPC_VERSION + 1}]

MinerDataResponses ==
  { [kind |-> k, data |-> DefaultMinerData] : k \in {"no_result", "bad_fields"} }
  \cup { [kind |-> "miner_data", data |-> DaemonMinerData(h, 0)] : h \in BootHeights }

\* run(), lines 1282 and 1288-1289: init_signals(), get_info() and
\* load_found_blocks().
\* load_found_blocks (lines 677-712) reads the records of the file and ends
\* in api_update_block_found(nullptr), whose api_update_stats_mod looks the
\* tip up in m_mainchainByHash.
Run ==
  /\ process = "init"
  /\ process' = "running"
  /\ rpc' = rpc \cup {Req("get_info", 0, 0)}
  /\ issued' = issued \cup {"get_info"}
  /\ IF apiEnabled /\ ledger.exists
       THEN /\ foundBlocks' = foundBlocks \o ledger.records
            /\ apiBlocks' = api_set_blocks(foundBlocks')
            /\ mainchainByHash' = api_tip_lookup(apiEnabled, mainchainByHash, minerData.prev_id)
       ELSE UNCHANGED << foundBlocks, apiBlocks, mainchainByHash >>
  /\ signalHandles' = Signals
  /\ UNCHANGED << apiEnabled, sideChainNetwork, seen, mainchainByHeight,
                  tmplVars, srvVars, ledger, zmqVars, submitVars, fnVars,
                  stopAsync, asyncHandles, caught, teardown, bkgJobs, wakeVars >>

\* get_info, the second callback (lines 667-674): sleep, then get_info().
GetInfoFailed ==
  /\ Running
  /\ Req("get_info", 0, 0) \in rpc
  /\ rpc' = (rpc \ {Req("get_info", 0, 0)}) \cup {Req("get_info", 0, 0)}
  /\ issued' = issued \cup {"get_info"}
  /\ UNCHANGED << procVars, seen, indexVars, tmplVars, srvVars, ledgerVars, zmqVars,
                  submitVars, fnVars, stopVars, wakeVars >>

\* lines 750-754
monero_network(info) ==
  IF info.stagenet THEN "Stagenet"
  ELSE IF info.testnet THEN "Testnet"
  ELSE IF info.mainnet THEN "Mainnet"
  ELSE "Invalid"

\* What an answer to get_info shows: "get_info" when the daemon is
\* synchronized on the side chain's network, "network_mismatch" when it is
\* synchronized on another one.
GoodInfo(resp) ==
  /\ resp.kind = "info"
  /\ ~resp.busy_syncing
  /\ resp.synchronized
  /\ monero_network(resp) = sideChainNetwork

NetworkMismatch(resp) ==
  /\ resp.kind = "info"
  /\ ~resp.busy_syncing
  /\ resp.synchronized
  /\ monero_network(resp) # sideChainNetwork

InfoShows(resp) ==
  (IF GoodInfo(resp) THEN {"get_info"} ELSE {})
    \cup (IF NetworkMismatch(resp) THEN {"network_mismatch"} ELSE {})

\* A parse_get_info_rpc that does not compare the networks.
parse_get_info_rpc_any_network(resp) ==
  IF resp.kind = "no_result" THEN "retry"
  ELSE IF resp.kind = "bad_fields" THEN "retry"
  ELSE IF resp.busy_syncing \/ ~resp.synchronized THEN "retry"
  ELSE "get_version"

\* parse_get_info_rpc (lines 714-764): what it does next, one of
\* "retry" (get_info again), "panic", "get_version".
parse_get_info_rpc(resp) ==
  IF resp.kind = "no_result" THEN "retry"
  ELSE IF resp.kind = "bad_fields" THEN "retry"
  ELSE IF resp.busy_syncing \/ ~resp.synchronized THEN "retry"
  ELSE IF monero_network(resp) # sideChainNetwork THEN "panic"
  ELSE "get_version"

GetInfoReply ==
  /\ Running
  /\ Req("get_info", 0, 0) \in rpc
  /\ \E resp \in InfoResponses :
       LET next == parse_get_info_rpc(resp)
       IN  /\ seen' = seen \cup InfoShows(resp)
           /\ CASE next = "retry" ->
                     /\ rpc' = (rpc \ {Req("get_info", 0, 0)}) \cup {Req("get_info", 0, 0)}
                     /\ issued' = issued \cup {"get_info"}
                     /\ UNCHANGED process
                [] next = "panic" ->
                     /\ panic("panic_network")
                     /\ rpc' = rpc \ {Req("get_info", 0, 0)}
                     /\ UNCHANGED issued
                [] next = "get_version" ->
                     /\ rpc' = (rpc \ {Req("get_info", 0, 0)}) \cup {Req("get_version", 0, 0)}
                     /\ issued' = issued \cup {"get_version"}
                     /\ UNCHANGED process
  /\ UNCHANGED << apiEnabled, sideChainNetwork, indexVars, tmplVars, srvVars, ledgerVars, zmqVars,
                  submitVars, fnVars, stopVars, wakeVars >>

\* get_version, the second callback (lines 773-780)
GetVersionFailed ==
  /\ Running
  /\ Req("get_version", 0, 0) \in rpc
  /\ rpc' = (rpc \ {Req("get_version", 0, 0)}) \cup {Req("get_version", 0, 0)}
  /\ issued' = issued \cup {"get_version"}
  /\ UNCHANGED << procVars, seen, indexVars, tmplVars, srvVars, ledgerVars, zmqVars,
                  submitVars, fnVars, stopVars, wakeVars >>

\* What an answer to get_version shows: "get_version" for status OK and a
\* version of at least 3.8, "old_version" for status OK and a lower one.
GoodVersion(resp) ==
  /\ resp.kind = "version"
  /\ resp.status = "OK"
  /\ resp.version >= MIN_RPC_VERSION

OldVersion(resp) ==
  /\ resp.kind = "version"
  /\ resp.status = "OK"
  /\ resp.version < MIN_RPC_VERSION

VersionShows(resp) ==
  (IF GoodVersion(resp) THEN {"get_version"} ELSE {})
    \cup (IF OldVersion(resp) THEN {"old_version"} ELSE {})

\* parse_get_version_rpc (lines 783-822): "retry", "panic" or "get_miner_data".
parse_get_version_rpc(resp) ==
  IF resp.kind = "no_result" THEN "retry"
  ELSE IF resp.kind = "bad_fields" THEN "retry"
  ELSE IF resp.status # "OK" THEN "retry"
  ELSE IF resp.version < MIN_RPC_VERSION THEN "panic"
  ELSE "get_miner_data"

GetVersionReply ==
  /\ Running
  /\ Req("get_version", 0, 0) \in rpc
  /\ \E resp \in VersionResponses :
       LET next == parse_get_version_rpc(resp)
       IN  /\ seen' = seen \cup VersionShows(resp)
           /\ CASE next = "retry" ->
                     /\ rpc' = (rpc \ {Req("get_version", 0, 0)}) \cup {Req("get_version", 0, 0)}
                     /\ issued' = issued \cup {"get_version"}
                     /\ UNCHANGED process
                [] next = "panic" ->
                     /\ panic("panic_version")
                     /\ rpc' = rpc \ {Req("get_version", 0, 0)}
                     /\ UNCHANGED issued
                [] next = "get_miner_data" ->
                     /\ rpc' = (rpc \ {Req("get_version", 0, 0)}) \cup {Req("get_miner_data", 0, 0)}
                     /\ issued' = issued \cup {"get_miner_data"}
                     /\ UNCHANGED process
  /\ UNCHANGED << apiEnabled, sideChainNetwork, indexVars, tmplVars, srvVars, ledgerVars, zmqVars,
                  submitVars, fnVars, stopVars, wakeVars >>

\* get_miner_data, the second callback (lines 831-838)
GetMinerDataFailed ==
  /\ Running
  /\ Req("get_miner_data", 0, 0) \in rpc
  /\ rpc' = (rpc \ {Req("get_miner_data", 0, 0)}) \cup {Req("get_miner_data", 0, 0)}
  /\ issued' = issued \cup {"get_miner_data"}
  /\ UNCHANGED << procVars, seen, indexVars, tmplVars, srvVars, ledgerVars, zmqVars,
                  submitVars, fnVars, stopVars, wakeVars >>

\* An answer to get_miner_data that parses.
GoodMinerData(resp) == resp.kind = "miner_data"

\* download_block_headers (lines 526-591): the three requests it sends.
download_block_headers(current_height) ==
  LET seed_height == get_seed_height(current_height)
      prev_seed_height == IF seed_height > SEEDHASH_EPOCH_BLOCKS
                            THEN seed_height - SEEDHASH_EPOCH_BLOCKS ELSE 0
  IN  { SeedReq(prev_seed_height, 1, prev_seed_height),
        SeedReq(seed_height, 2, prev_seed_height),
        Req("get_block_headers_range", current_height, 0) }

\* handle_miner_data (lines 182-272) when is_main_thread(): the whole
\* handler runs on the loop thread and rebuilds the template inline.
\* m_serversStarted is still 0 then, so lines 238-271 ask for no header.
\* << by height, by hash, m_minerData, m_updateSeed, mempool, hasher,
\*    block template >> afterwards.
handle_miner_data_inline(data) ==
  LET idx == miner_data_index(mainchainByHeight, mainchainByHash, data)
      md  == [data EXCEPT !.tx_backlog = {},
                          !.median_timestamp = update_median_timestamp(idx[1])]
      t   == update_block_template(md, data.tx_backlog, TRUE, hasher, idx[2])
  IN  << idx[1], t[4], md, t[2], data.tx_backlog, t[1], t[3] >>

\* parse_get_miner_data_rpc (lines 841-887): a response that does not parse
\* is skipped; one that parses goes to handle_miner_data and
\* download_block_headers.
GetMinerDataReply ==
  /\ Running
  /\ Req("get_miner_data", 0, 0) \in rpc
  /\ \E resp \in MinerDataResponses :
       /\ seen' = IF GoodMinerData(resp) THEN seen \cup {"get_miner_data"} ELSE seen
       /\ IF resp.kind # "miner_data"
            THEN /\ rpc' = rpc \ {Req("get_miner_data", 0, 0)}
                 /\ UNCHANGED << issued, indexVars, tmplVars, templateRuns >>
            ELSE LET r == handle_miner_data_inline(resp.data)
                 IN  /\ templateRuns' = Append(templateRuns, template_run("inline", TRUE))
                     /\ mainchainByHeight' = r[1]
                     /\ mainchainByHash' = r[2]
                     /\ minerData' = r[3]
                     /\ updateSeed' = r[4]
                     /\ mempool' = r[5]
                     /\ hasher' = r[6]
                     /\ blockTemplate' = r[7]
                     /\ rpc' = (rpc \ {Req("get_miner_data", 0, 0)})
                                 \cup download_block_headers(resp.data.height)
                     /\ issued' = issued \cup {"get_block_header_by_height",
                                               "get_block_headers_range"}
  /\ UNCHANGED << procVars, srvVars, ledgerVars, zmqVars,
                  submitVars, fnVars, stopVars, templateSignals >>

\* What the daemon answers to get_block_header_by_height.
HeaderResponses(h) ==
  { [kind |-> "malformed", header |-> DefaultChainMain],
    [kind |-> "header", header |-> DaemonHeader(h, 0)] }

SeedRequests == { r \in rpc : r.method = "get_block_header_by_height" /\ r.n # 0 }

\* download_block_headers, the second callback of a seed request (lines 555-561)
SeedHeaderFailed ==
  /\ Running
  /\ \E req \in SeedRequests :
       /\ rpc' = rpc \ {req}
       /\ panic("panic_seed_header")
  /\ UNCHANGED << apiEnabled, sideChainNetwork, issued, seen, indexVars, tmplVars,
                  srvVars, ledgerVars, zmqVars,
                  submitVars, fnVars, stopVars, wakeVars >>

\* download_block_headers, the first callback of a seed request (lines
\* 541-554) with parse_block_header (lines 889-929).
SeedHeaderReply ==
  /\ Running
  /\ \E req \in SeedRequests :
       \E resp \in HeaderResponses(req.height) :
         /\ rpc' = rpc \ {req}
         /\ IF resp.kind # "header"
              THEN /\ panic("panic_seed_header")
                   /\ UNCHANGED << indexVars, hasher >>
              ELSE LET idx == insert_header(mainchainByHeight, mainchainByHash, resp.header)
                   IN  /\ mainchainByHeight' = idx[1]
                       /\ mainchainByHash' = idx[2]
                       /\ hasher' = IF req.height = req.prev
                                      THEN [hasher EXCEPT !.old_seed_set = TRUE,
                                                          !.old_seed = resp.header.id]
                                      ELSE hasher
                       /\ UNCHANGED process
  /\ UNCHANGED << apiEnabled, sideChainNetwork, issued, seen, minerData, updateSeed,
                  mempool, blockTemplate, srvVars, ledgerVars, zmqVars,
                  submitVars, fnVars, stopVars, wakeVars >>

\* What the daemon answers to get_block_headers_range for the heights
\* current_height - 720 .. current_height - 1: nothing usable, all the
\* headers asked for, or all but the last one.
RangeResponses(current_height) ==
  { [kind |-> "malformed", first |-> 0, count |-> 0],
    [kind |-> "headers", first |-> current_height - BLOCK_HEADERS_REQUIRED,
     count |-> BLOCK_HEADERS_REQUIRED],
    [kind |-> "headers", first |-> current_height - BLOCK_HEADERS_REQUIRED,
     count |-> BLOCK_HEADERS_REQUIRED - 1] }

RangeRequests == { r \in rpc : r.method = "get_block_headers_range" }

\* parse_block_headers_range (lines 931-980): the number of headers parsed.
\* Every header of a "headers" response of the model parses.
parse_block_headers_range(resp) ==
  IF resp.kind = "headers" THEN resp.count ELSE 0

\* download_block_headers, the second callback of the range request (lines 584-590)
HeadersRangeFailed ==
  /\ Running
  /\ \E req \in RangeRequests :
       /\ rpc' = rpc \ {req}
       /\ panic("panic_headers_range")
  /\ UNCHANGED << apiEnabled, sideChainNetwork, issued, seen, indexVars, tmplVars,
                  srvVars, ledgerVars, zmqVars,
                  submitVars, fnVars, stopVars, wakeVars >>

\* A check that takes any number of parsed headers for the full range.
range_complete_any(num) == num >= 0

\* download_block_headers, lines 570-578: whether the servers are started
\* after num headers were parsed.
range_complete(num) == num = BLOCK_HEADERS_REQUIRED

\* download_block_headers, the first callback of the range request (lines
\* 568-583): parse_block_headers_range, then update_median_timestamp and
\* the start of the three servers, once.
HeadersRangeReply ==
  /\ Running
  /\ \E req \in RangeRequests :
       \E resp \in RangeResponses(req.height) :
         LET idx == IF resp.kind = "headers"
                      THEN insert_headers(mainchainByHeight, mainchainByHash,
                                          resp.first, resp.count)
                      ELSE << mainchainByHeight, mainchainByHash >>
         IN  /\ rpc' = rpc \ {req}
             /\ mainchainByHeight' = idx[1]
             /\ IF range_complete(parse_block_headers_range(resp))
                  THEN /\ minerData' = [minerData EXCEPT
                                          !.median_timestamp = update_median_timestamp(idx[1])]
                       /\ serversStarted' = 1
                       /\ IF serversStarted = 0
                            THEN /\ servers' = [zmq |-> servers.zmq + 1,
                                                stratum |-> servers.stratum + 1,
                                                p2p |-> servers.p2p + 1]
                                 /\ mainchainByHash' =
                                      api_tip_lookup(apiEnabled, idx[2], minerData.prev_id)
                            ELSE /\ UNCHANGED servers
                                 /\ mainchainByHash' = idx[2]
                       /\ UNCHANGED process
                  ELSE /\ panic("panic_headers_range")
                       /\ mainchainByHash' = idx[2]
                       /\ UNCHANGED << minerData, srvVars >>
  /\ UNCHANGED << apiEnabled, sideChainNetwork, issued, seen, updateSeed, mempool,
                  hasher, blockTemplate, ledgerVars, zmqVars,
                  submitVars, fnVars, stopVars, wakeVars >>

BootNext ==
  \/ Run
  \/ GetInfoFailed
  \/ GetInfoReply
  \/ GetVersionFailed
  \/ GetVersionReply
  \/ GetMinerDataFailed
  \/ GetMinerDataReply
  \/ SeedHeaderFailed
  \/ SeedHeaderReply
  \/ HeadersRangeFailed
  \/ HeadersRangeReply

\* The bootstrap alone: from the constructor to the start of the servers.
SpecBoot == Init /\ [][BootNext]_vars

\* --------------------------------------------------------- steady state
\* The state in which the three servers have just been started at
\* SteadyHeight: the bootstrap with well-formed answers all the way, the two
\* seed headers answered before the range, no ledger file.
BootIndex ==
  LET d  == DaemonMinerData(SteadyHeight, 0)
      sh == get_seed_height(SteadyHeight)
      i0 == miner_data_index(<< >>, << >>, d)
      i1 == insert_header(i0[1], i0[2], DaemonHeader(sh - SEEDHASH_EPOCH_BLOCKS, 0))
      i2 == insert_header(i1[1], i1[2], DaemonHeader(sh, 0))
  IN  insert_headers(i2[1], i2[2], SteadyHeight - BLOCK_HEADERS_REQUIRED,
                     BLOCK_HEADERS_REQUIRED)

BootMinerData == [DaemonMinerData(SteadyHeight, 0) EXCEPT !.tx_backlog = {}]

SteadyInit ==
  /\ process = "running"
  /\ apiEnabled \in BOOLEAN
  /\ sideChainNetwork = "Mainnet"
  /\ rpc = {}
  /\ issued = {"get_info", "get_version", "get_miner_data",
               "get_block_header_by_height", "get_block_headers_range"}
  /\ seen = {"get_info", "get_version", "get_miner_data"}
  /\ mainchainByHeight = BootIndex[1]
  /\ mainchainByHash = BootIndex[2]
  /\ minerData = [BootMinerData EXCEPT
                    !.median_timestamp = update_median_timestamp(BootIndex[1])]
  /\ updateSeed = FALSE
  /\ mempool = Backlog(SteadyHeight, 0)
  /\ hasher = [seed_set |-> TRUE, seed |-> BootMinerData.seed_hash,
               old_seed_set |-> TRUE,
               old_seed |-> BlockId(get_seed_height(SteadyHeight) - SEEDHASH_EPOCH_BLOCKS, 0)]
  /\ blockTemplate = [updated |-> TRUE, miner_data |-> BootMinerData,
                      mempool |-> Backlog(SteadyHeight, 0)]
  /\ serversStarted = 1
  /\ servers = [zmq |-> 1, stratum |-> 1, p2p |-> 1]
  /\ foundBlocks = << >>
  /\ ledger = [exists |-> FALSE, records |-> << >>]
  /\ apiBlocks = NotPublished
  /\ zmq = ZmqIdle
  /\ zmqEvents = 0
  /\ stored = << BootMinerData >>
  /\ blockTemplateAsync = FALSE
  /\ submitBlockData = DefaultSubmitBlockData
  /\ submitCaller = 0
  /\ submitCalls = 0
  /\ submitPosted = << >>
  /\ submitBlockAsync = FALSE
  /\ submitInFlight = 0
  /\ submitSent = << >>
  /\ fnInput = << >>
  /\ fnOutput = << >>
  /\ stopAsync = FALSE
  /\ asyncHandles = AsyncHandles
  /\ signalHandles = Signals
  /\ caught = << >>
  /\ teardown = << >>
  /\ bkgJobs = 0
  /\ templateSignals = 0
  /\ templateRuns = << >>

\* How many ZMQ messages the reader thread hands over in a run of the model.
MaxZmqEvents == 2

\* The heights of the miner data messages: the next block, and one
\* MaxAdvance blocks ahead that leaves heights missing from the index.
ZmqHeights == {SteadyHeight + 1, SteadyHeight + MaxAdvance}

\* The ZMQ reader thread takes its next message.
ZmqReady == Running /\ serversStarted = 1 /\ zmq.pc = "idle" /\ zmqEvents < MaxZmqEvents

\* The fields of MinerData, and what a reader may find in m_minerData while
\* "m_minerData = data" (line 212) runs on another thread: the assignment
\* copies member by member and nothing orders the reader after it.
MinerDataFields == DOMAIN DefaultMinerData

TornCopies(old, new) ==
  { [f \in MinerDataFields |-> IF f \in S THEN new[f] ELSE old[f]] :
      S \in SUBSET MinerDataFields }

\* handle_miner_data, line 189, on the ZMQ thread: the mempool takes
\* data.tx_backlog.
MinerDataSwap ==
  /\ ZmqReady
  /\ \E h \in ZmqHeights, f \in Forks :
       /\ zmq' = [pc |-> "md_index", type |-> "miner_data",
                  data |-> DaemonMinerData(h, f), ours |-> FALSE]
       /\ mempool' = DaemonMinerData(h, f).tx_backlog
  /\ zmqEvents' = zmqEvents + 1
  /\ UNCHANGED << procVars, rpcVars, indexVars, minerData, updateSeed, hasher,
                  blockTemplate, srvVars, ledgerVars, stored, blockTemplateAsync,
                  submitVars, fnVars, stopVars, wakeVars >>

\* handle_miner_data, lines 192-208: the index under the write lock
MinerDataIndex ==
  /\ Running
  /\ zmq.pc = "md_index"
  /\ LET idx == miner_data_index(mainchainByHeight, mainchainByHash, zmq.data)
     IN  /\ mainchainByHeight' = idx[1]
         /\ mainchainByHash' = idx[2]
  /\ zmq' = [zmq EXCEPT !.pc = "md_store"]
  /\ UNCHANGED << procVars, rpcVars, tmplVars, srvVars, ledgerVars, zmqEvents, stored,
                  blockTemplateAsync, submitVars, fnVars, stopVars, wakeVars >>

\* handle_miner_data, lines 210-212: data.tx_backlog.clear() and the
\* beginning of "m_minerData = data"
MinerDataStoreBegin ==
  /\ Running
  /\ zmq.pc = "md_store"
  /\ LET data == [zmq.data EXCEPT !.tx_backlog = {}]
     IN  /\ minerData' \in TornCopies(minerData, data)
         /\ zmq' = [zmq EXCEPT !.pc = "md_store_end", !.data = data]
  /\ UNCHANGED << procVars, rpcVars, indexVars, updateSeed, mempool, hasher,
                  blockTemplate, srvVars, ledgerVars, zmqEvents, stored,
                  blockTemplateAsync, submitVars, fnVars, stopVars, wakeVars >>

\* handle_miner_data, line 212: "m_minerData = data" is complete
MinerDataStoreEnd ==
  /\ Running
  /\ zmq.pc = "md_store_end"
  /\ minerData' = zmq.data
  /\ stored' = Append(stored, zmq.data)
  /\ zmq' = [zmq EXCEPT !.pc = "md_seed"]
  /\ UNCHANGED << procVars, rpcVars, indexVars, updateSeed, mempool, hasher,
                  blockTemplate, srvVars, ledgerVars, zmqEvents, blockTemplateAsync,
                  submitVars, fnVars, stopVars, wakeVars >>

\* handle_miner_data, line 213
MinerDataUpdateSeed ==
  /\ Running
  /\ zmq.pc = "md_seed"
  /\ updateSeed' = TRUE
  /\ zmq' = [zmq EXCEPT !.pc = "md_median"]
  /\ UNCHANGED << procVars, rpcVars, indexVars, minerData, mempool, hasher,
                  blockTemplate, srvVars, ledgerVars, zmqEvents, stored,
                  blockTemplateAsync, submitVars, fnVars, stopVars, wakeVars >>

\* handle_miner_data, line 214: update_median_timestamp (lines 624-638)
MinerDataMedian ==
  /\ Running
  /\ zmq.pc = "md_median"
  /\ minerData' = [minerData EXCEPT
                     !.median_timestamp = update_median_timestamp(mainchainByHeight)]
  /\ zmq' = [zmq EXCEPT !.pc = "md_async"]
  /\ UNCHANGED << procVars, rpcVars, indexVars, updateSeed, mempool, hasher,
                  blockTemplate, srvVars, ledgerVars, zmqEvents, stored,
                  blockTemplateAsync, submitVars, fnVars, stopVars, wakeVars >>

\* A handle_miner_data that counts its signal and wakes nobody.
MinerDataAsyncNoWake ==
  /\ Running
  /\ zmq.pc = "md_async"
  /\ templateSignals' = templateSignals + 1
  /\ zmq' = [zmq EXCEPT !.pc = "md_missing"]
  /\ UNCHANGED << procVars, rpcVars, indexVars, tmplVars, srvVars, ledgerVars,
                  zmqEvents, stored, blockTemplateAsync, submitVars, fnVars, stopVars,
                  templateRuns >>

\* handle_miner_data, lines 229-231: off the loop thread the rebuild is
\* asked for with update_block_template_async (lines 507-513); wake-ups not
\* yet delivered coalesce into one.
MinerDataAsync ==
  /\ Running
  /\ zmq.pc = "md_async"
  /\ blockTemplateAsync' = TRUE
  /\ templateSignals' = templateSignals + 1
  /\ zmq' = [zmq EXCEPT !.pc = "md_missing"]
  /\ UNCHANGED << procVars, rpcVars, indexVars, tmplVars, srvVars, ledgerVars,
                  zmqEvents, stored, submitVars, fnVars, stopVars, templateRuns >>

\* The last BLOCK_HEADERS_REQUIRED heights, in the index or not.
missing_heights_unchecked(byHeight, height) ==
  { h \in (height - BLOCK_HEADERS_REQUIRED + 1)..height : h >= 1 }

\* handle_miner_data, lines 242-247: the heights asked for again
missing_heights(byHeight, height) ==
  { h \in (height - BLOCK_HEADERS_REQUIRED + 1)..height :
      h >= 1 /\ h \notin DOMAIN byHeight }

\* handle_miner_data, lines 238-271: one get_block_header_by_height per
\* missing height
MinerDataMissing ==
  /\ Running
  /\ zmq.pc = "md_missing"
  /\ rpc' = IF serversStarted # 0
              THEN rpc \cup { Req("get_block_header_by_height", h, 0) :
                                h \in missing_heights(mainchainByHeight, zmq.data.height) }
              ELSE rpc
  /\ zmq' = ZmqIdle
  /\ UNCHANGED << procVars, issued, seen, indexVars, tmplVars, srvVars, ledgerVars, zmqEvents,
                  stored, blockTemplateAsync, submitVars, fnVars, stopVars, wakeVars >>

MissingRequests == { r \in rpc : r.method = "get_block_header_by_height" /\ r.n = 0 }

\* The first callback of such a request (lines 256-262): parse_block_header
\* (lines 889-929) inserts the header, or the failure is logged.
MissingHeaderReply ==
  /\ Running
  /\ \E req \in MissingRequests :
       \E resp \in HeaderResponses(req.height) :
         /\ rpc' = rpc \ {req}
         /\ IF resp.kind = "header"
              THEN LET idx == insert_header(mainchainByHeight, mainchainByHash, resp.header)
                   IN  /\ mainchainByHeight' = idx[1]
                       /\ mainchainByHash' = idx[2]
              ELSE UNCHANGED indexVars
  /\ UNCHANGED << procVars, issued, seen, tmplVars, srvVars, ledgerVars, zmqVars,
                  submitVars, fnVars, stopVars, wakeVars >>

\* The second callback (lines 263-268): the failure is logged.
MissingHeaderFailed ==
  /\ Running
  /\ \E req \in MissingRequests : rpc' = rpc \ {req}
  /\ UNCHANGED << procVars, issued, seen, indexVars, tmplVars, srvVars, ledgerVars,
                  zmqVars, submitVars, fnVars, stopVars, wakeVars >>

\* The chain_main messages of the model: the block at height h of the
\* daemon's main chain; ours says that its extra field ends in the id of a
\* block the side chain has.
ChainMainHeights == SteadyHeight..(SteadyHeight + 1)

ChainMainData(h) ==
  [height |-> h, id |-> ZeroHash, timestamp |-> BlockTimestamp(h),
   reward |-> BlockReward(h), difficulty |-> 0]

\* handle_chain_main, lines 287-299, on the ZMQ thread: the index under the
\* write lock; data.id becomes the id the index has for the height.
ChainMainIndex ==
  /\ ZmqReady
  /\ \E h \in ChainMainHeights, o \in BOOLEAN :
       LET c   == chain_main_entry(mainchainByHeight, ChainMainData(h))
           idx == chain_main_index(mainchainByHeight, mainchainByHash, ChainMainData(h))
       IN  /\ mainchainByHeight' = idx[1]
           /\ mainchainByHash' = idx[2]
           /\ zmq' = [pc |-> "cm_median", type |-> "chain_main",
                      data |-> [ChainMainData(h) EXCEPT !.id = c.id], ours |-> o]
  /\ zmqEvents' = zmqEvents + 1
  /\ UNCHANGED << procVars, rpcVars, tmplVars, srvVars, ledgerVars, stored,
                  blockTemplateAsync, submitVars, fnVars, stopVars, wakeVars >>

\* handle_chain_main, line 300: update_median_timestamp
ChainMainMedian ==
  /\ Running
  /\ zmq.pc = "cm_median"
  /\ minerData' = [minerData EXCEPT
                     !.median_timestamp = update_median_timestamp(mainchainByHeight)]
  /\ zmq' = [zmq EXCEPT !.pc = "cm_stats"]
  /\ UNCHANGED << procVars, rpcVars, indexVars, updateSeed, mempool, hasher,
                  blockTemplate, srvVars, ledgerVars, zmqEvents, stored,
                  blockTemplateAsync, submitVars, fnVars, stopVars, wakeVars >>

\* The wall-clock time and the side chain's total hashes that
\* api_update_block_found writes; neither is read back by the coordinator.
CurTime == 1600000
TotalHashes == 88

\* api_update_block_found(&data) (lines 1133-1181) with m_api set:
\* << found blocks, ledger >> afterwards.
api_update_block_found(byHeight, fb, lg, data) ==
  LET known == data.height \in DOMAIN byHeight
      diff  == IF known THEN byHeight[data.height].difficulty ELSE 0
      rec   == [timestamp |-> CurTime, height |-> data.height, id |-> data.id,
                block_diff |-> diff, total_hashes |-> TotalHashes]
  IN  << Append(fb, rec),
         IF known THEN [exists |-> TRUE, records |-> Append(lg.records, rec)] ELSE lg >>

\* handle_chain_main, lines 323-333: a block of this pool is recorded,
\* then api_update_network_stats looks the tip up.
ChainMainStats ==
  /\ Running
  /\ zmq.pc = "cm_stats"
  /\ IF zmq.ours /\ apiEnabled
       THEN LET r == api_update_block_found(mainchainByHeight, foundBlocks, ledger, zmq.data)
            IN  /\ foundBlocks' = r[1]
                /\ ledger' = r[2]
                /\ apiBlocks' = api_set_blocks(r[1])
       ELSE UNCHANGED ledgerVars
  /\ mainchainByHash' = api_tip_lookup(apiEnabled, mainchainByHash, minerData.prev_id)
  /\ zmq' = ZmqIdle
  /\ UNCHANGED << procVars, rpcVars, mainchainByHeight, tmplVars, srvVars, zmqEvents,
                  stored, blockTemplateAsync, submitVars, fnVars, stopVars, wakeVars >>

\* The txpool_add messages of the model: a transaction, and one without a
\* fee.
ZmqTxs == { Tx(1), [Tx(2) EXCEPT !.fee = 0] }

\* A handle_tx that looks at the fee only.
mempool_after_tx_fee_only(mp, tx) ==
  IF tx.fee = 0 THEN mp ELSE mp \cup {tx}

\* handle_tx, lines 162-167: the mempool after the message; Mempool::add
\* puts the transaction in.
mempool_after_tx(mp, tx) ==
  IF tx.weight = 0 \/ tx.fee = 0 THEN mp ELSE mp \cup {tx}

\* handle_tx (lines 160-180) on the ZMQ thread
handle_tx ==
  /\ ZmqReady
  /\ \E tx \in ZmqTxs :
       mempool' = mempool_after_tx(mempool, tx)
  /\ zmqEvents' = zmqEvents + 1
  /\ UNCHANGED << procVars, rpcVars, indexVars, minerData, updateSeed, hasher,
                  blockTemplate, srvVars, ledgerVars, zmq, stored, blockTemplateAsync,
                  submitVars, fnVars, stopVars, wakeVars >>

\* The callback of m_blockTemplateAsync on the loop thread:
\* update_block_template (lines 515-524) on what the fields hold now.
BlockTemplateWake ==
  /\ Running
  /\ blockTemplateAsync
  /\ blockTemplateAsync' = FALSE
  /\ templateRuns' = Append(templateRuns, template_run("wake", updateSeed))
  /\ LET t == update_block_template(minerData, mempool, updateSeed, hasher, mainchainByHash)
     IN  /\ hasher' = t[1]
         /\ updateSeed' = t[2]
         /\ blockTemplate' = t[3]
         /\ mainchainByHash' = t[4]
  /\ UNCHANGED << procVars, rpcVars, mainchainByHeight, minerData, mempool, srvVars,
                  ledgerVars, zmq, zmqEvents, stored, submitVars, fnVars, stopVars,
                  templateSignals >>

SteadyNext ==
  \/ MinerDataSwap
  \/ MinerDataIndex
  \/ MinerDataStoreBegin
  \/ MinerDataStoreEnd
  \/ MinerDataUpdateSeed
  \/ MinerDataMedian
  \/ MinerDataAsync
  \/ MinerDataMissing
  \/ MissingHeaderReply
  \/ MissingHeaderFailed
  \/ ChainMainIndex
  \/ ChainMainMedian
  \/ ChainMainStats
  \/ handle_tx
  \/ BlockTemplateWake

\* The coordinator with its servers running: ZMQ messages on the reader
\* thread, callbacks on the loop thread.
SpecSteady == SteadyInit /\ [][SteadyNext]_vars

\* ---------------------------------------------------------- submit_block
\* How many submit_block_async calls a run of the model makes.
MaxSubmits == 2

\* snprintf(buf, sizeof(buf), "%02x", b): two lower-case hex digits
HexDigits == << "0", "1", "2", "3", "4", "5", "6", "7",
                "8", "9", "a", "b", "c", "d", "e", "f" >>

hex_byte(b) == << HexDigits[(b \div 16) + 1], HexDigits[(b % 16) + 1] >>

\* What BlockTemplate::get_block_template_blob returns: for the template
\* of id KnownTemplate its blob with the offsets of the nonce and of the
\* extra nonce, for any other id an empty blob.
KnownTemplate == 1
TemplateBlob == << 14, 0, 0, 0, 0, 200, 0, 0, 0, 0, 7 >>
TemplateNonceOffset == 1
TemplateExtraNonceOffset == 6

get_block_template_blob(template_id) ==
  IF template_id = KnownTemplate
    THEN [blob |-> TemplateBlob, nonce_offset |-> TemplateNonceOffset,
          extra_nonce_offset |-> TemplateExtraNonceOffset]
    ELSE [blob |-> << >>, nonce_offset |-> 0, extra_nonce_offset |-> 0]

\* sizeof(submit_data.nonce), sizeof(submit_data.extra_nonce)
NonceSize == 4

\* submit_block, lines 424-440: the byte rendered at index i (from 0) of
\* the blob.  The nonce is shifted right by 8 bits after each of its bytes,
\* so its byte k (from 0) is (nonce >> 8k) & 255.
nonce_byte(n, k) == (n \div (256 ^ k)) % 256

\* A rendering that splices the nonce in whatever the offset is.
submit_byte_unguarded(blob, nonce_offset, extra_nonce_offset, nonce, extra_nonce, i) ==
  IF nonce_offset <= i /\ i < nonce_offset + NonceSize
    THEN nonce_byte(nonce, i - nonce_offset)
  ELSE IF extra_nonce_offset # 0 /\ extra_nonce_offset <= i
            /\ i < extra_nonce_offset + NonceSize
    THEN nonce_byte(extra_nonce, i - extra_nonce_offset)
  ELSE blob[i + 1]

\* A rendering that writes the nonces most significant byte first.
submit_byte_big_endian(blob, nonce_offset, extra_nonce_offset, nonce, extra_nonce, i) ==
  IF nonce_offset # 0 /\ nonce_offset <= i /\ i < nonce_offset + NonceSize
    THEN nonce_byte(nonce, NonceSize - 1 - (i - nonce_offset))
  ELSE IF extra_nonce_offset # 0 /\ extra_nonce_offset <= i
            /\ i < extra_nonce_offset + NonceSize
    THEN nonce_byte(extra_nonce, NonceSize - 1 - (i - extra_nonce_offset))
  ELSE blob[i + 1]

\* Index i takes the first branch of the loop (line 427).
in_nonce(nonce_offset, i) ==
  nonce_offset # 0 /\ nonce_offset <= i /\ i < nonce_offset + NonceSize

\* Index i takes the second branch of the loop (line 431).
in_extra_nonce(nonce_offset, extra_nonce_offset, i) ==
  /\ ~in_nonce(nonce_offset, i)
  /\ extra_nonce_offset # 0 /\ extra_nonce_offset <= i
  /\ i < extra_nonce_offset + NonceSize

\* submit_data.extra_nonce is shifted (line 433) once for every earlier
\* index that took the second branch.
extra_nonce_shifts(nonce_offset, extra_nonce_offset, i) ==
  Cardinality({ j \in 0..(i - 1) : in_extra_nonce(nonce_offset, extra_nonce_offset, j) })

submit_byte(blob, nonce_offset, extra_nonce_offset, nonce, extra_nonce, i) ==
  IF in_nonce(nonce_offset, i)
    THEN nonce_byte(nonce, i - nonce_offset)
  ELSE IF in_extra_nonce(nonce_offset, extra_nonce_offset, i)
    THEN nonce_byte(extra_nonce,
                    extra_nonce_shifts(nonce_offset, extra_nonce_offset, i))
  ELSE blob[i + 1]

\* submit_block, lines 424-440: the hex string the loop appends to the
\* request, two digits per byte of the blob.
submit_request(blob, nonce_offset, extra_nonce_offset, nonce, extra_nonce) ==
  [k \in 1..(2 * Len(blob)) |->
     hex_byte(submit_byte(blob, nonce_offset, extra_nonce_offset,
                          nonce, extra_nonce, (k - 1) \div 2))[((k - 1) % 2) + 1]]

\* A submit_block that goes on with the blob it was handed, found or not.
submit_block_unknown_too(submit_data) ==
  LET external == submit_data.blob # << >>
      t    == IF external
                THEN [blob |-> submit_data.blob, nonce_offset |-> 0, extra_nonce_offset |-> 0]
                ELSE get_block_template_blob(submit_data.template_id)
  IN  << TRUE,
         submit_request(t.blob, t.nonce_offset, t.extra_nonce_offset,
                        submit_data.nonce, submit_data.extra_nonce),
         external >>

\* submit_block, lines 386-440: << a request is sent, its params[0],
\* is_external >> for the submit data given.
submit_block(submit_data) ==
  LET external == submit_data.blob # << >>
      t    == IF external
                THEN [blob |-> submit_data.blob, nonce_offset |-> 0, extra_nonce_offset |-> 0]
                ELSE get_block_template_blob(submit_data.template_id)
  IN  << Len(t.blob) # 0,
         submit_request(t.blob, t.nonce_offset, t.extra_nonce_offset,
                        submit_data.nonce, submit_data.extra_nonce),
         external >>

\* The arguments of the submit_block_async calls of the model.
SubmitTemplateIds == {KnownTemplate, KnownTemplate + 1}
SubmitNonce == 16909060
SubmitExtraNonce == 2827
SubmitBlobs == { << >>, << 10, 255, 0, 171 >> }

SubmitReady ==
  Running /\ serversStarted = 1 /\ submitCalls < MaxSubmits

\* A store of the handle that leaves the blob of the call before.
SubmitBlockAsyncTemplateKeepBlob ==
  /\ SubmitReady
  /\ \E id \in SubmitTemplateIds :
       submitBlockData' = [submitBlockData EXCEPT !.template_id = id,
                                                  !.nonce = SubmitNonce,
                                                  !.extra_nonce = SubmitExtraNonce]
  /\ submitPosted' = Append(submitPosted, submitBlockData')
  /\ submitCaller' = submitCaller + 1
  /\ submitCalls' = submitCalls + 1
  /\ UNCHANGED << procVars, rpcVars, indexVars, tmplVars, srvVars, ledgerVars, zmqVars,
                  submitBlockAsync, submitInFlight, submitSent, fnVars, stopVars, wakeVars >>

\* submit_block_async(template_id, nonce, extra_nonce), lines 340-347: the
\* store under m_submitBlockDataLock
SubmitBlockAsyncTemplate ==
  /\ SubmitReady
  /\ \E id \in SubmitTemplateIds :
       submitBlockData' = [template_id |-> id, nonce |-> SubmitNonce,
                           extra_nonce |-> SubmitExtraNonce, blob |-> << >>]
  /\ submitPosted' = Append(submitPosted, submitBlockData')
  /\ submitCaller' = submitCaller + 1
  /\ submitCalls' = submitCalls + 1
  /\ UNCHANGED << procVars, rpcVars, indexVars, tmplVars, srvVars, ledgerVars, zmqVars,
                  submitBlockAsync, submitInFlight, submitSent, fnVars, stopVars, wakeVars >>

\* A store of the blob that leaves template_id, nonce and extra_nonce as
\* the call before left them.
SubmitBlockAsyncBlobOnly ==
  /\ SubmitReady
  /\ \E b \in SubmitBlobs :
       /\ submitBlockData' = [submitBlockData EXCEPT !.blob = b]
       /\ submitPosted' = Append(submitPosted,
                                 [template_id |-> 0, nonce |-> 0, extra_nonce |-> 0,
                                  blob |-> b])
  /\ submitCaller' = submitCaller + 1
  /\ submitCalls' = submitCalls + 1
  /\ UNCHANGED << procVars, rpcVars, indexVars, tmplVars, srvVars, ledgerVars, zmqVars,
                  submitBlockAsync, submitInFlight, submitSent, fnVars, stopVars, wakeVars >>

\* submit_block_async(blob), lines 357-364
SubmitBlockAsyncBlob ==
  /\ SubmitReady
  /\ \E b \in SubmitBlobs :
       submitBlockData' = [template_id |-> 0, nonce |-> 0, extra_nonce |-> 0, blob |-> b]
  /\ submitPosted' = Append(submitPosted, submitBlockData')
  /\ submitCaller' = submitCaller + 1
  /\ submitCalls' = submitCalls + 1
  /\ UNCHANGED << procVars, rpcVars, indexVars, tmplVars, srvVars, ledgerVars, zmqVars,
                  submitBlockAsync, submitInFlight, submitSent, fnVars, stopVars, wakeVars >>

\* submit_block_async, lines 349-352 and 366-369: uv_async_send
SubmitBlockAsyncSend ==
  /\ Running
  /\ submitCaller > 0
  /\ submitBlockAsync' = TRUE
  /\ submitCaller' = submitCaller - 1
  /\ UNCHANGED << procVars, rpcVars, indexVars, tmplVars, srvVars, ledgerVars, zmqVars,
                  submitBlockData, submitCalls, submitPosted, submitInFlight, submitSent,
                  fnVars, stopVars, wakeVars >>

\* The callback of m_submitBlockAsync on the loop thread: submit_block
\* (lines 386-499) up to JSONRPCRequest::call
SubmitBlockWake ==
  /\ Running
  /\ submitBlockAsync
  /\ submitBlockAsync' = FALSE
  /\ LET r == submit_block(submitBlockData)
     IN  IF r[1]
           THEN /\ submitInFlight' = submitInFlight + 1
                /\ submitSent' = Append(submitSent,
                                         [params |-> r[2], external |-> r[3],
                                          posted |-> Len(submitPosted)])
           ELSE UNCHANGED << submitInFlight, submitSent >>
  /\ UNCHANGED << procVars, rpcVars, indexVars, tmplVars, srvVars, ledgerVars, zmqVars,
                  submitBlockData, submitCaller, submitCalls, submitPosted, fnVars, stopVars, wakeVars >>

\* What the daemon answers to submit_block.
SubmitResponses == {"invalid_json", "error", "status_ok", "unrecognized"}

\* submit_block, the first callback (lines 443-486): every answer is logged
\* and nothing else.
SubmitBlockReply ==
  /\ Running
  /\ submitInFlight > 0
  /\ \E resp \in SubmitResponses : submitInFlight' = submitInFlight - 1
  /\ UNCHANGED << procVars, rpcVars, indexVars, tmplVars, srvVars, ledgerVars, zmqVars,
                  submitBlockData, submitCaller, submitCalls, submitPosted,
                  submitBlockAsync, submitSent, fnVars, stopVars, wakeVars >>

\* submit_block, the second callback (lines 487-498): the failure is logged.
SubmitBlockFailed ==
  /\ Running
  /\ submitInFlight > 0
  /\ submitInFlight' = submitInFlight - 1
  /\ UNCHANGED << procVars, rpcVars, indexVars, tmplVars, srvVars, ledgerVars, zmqVars,
                  submitBlockData, submitCaller, submitCalls, submitPosted,
                  submitBlockAsync, submitSent, fnVars, stopVars, wakeVars >>

SubmitNext ==
  \/ SubmitBlockAsyncTemplate
  \/ SubmitBlockAsyncBlob
  \/ SubmitBlockAsyncSend
  \/ SubmitBlockWake
  \/ SubmitBlockReply
  \/ SubmitBlockFailed

\* The coordinator with its servers running and threads submitting blocks.
SpecSubmit == SteadyInit /\ [][SubmitNext]_vars

\* ------------------------------------------------------------ properties
\* The two maps mirror each other.
Mirror(byHeight, byHash) ==
  /\ \A h \in DOMAIN byHeight :
       /\ byHeight[h].id \in DOMAIN byHash
       /\ byHash[byHeight[h].id] = byHeight[h]
  /\ \A k \in DOMAIN byHash :
       Cardinality({ h \in DOMAIN byHeight : byHeight[h] = byHash[k] }) = 1

\* C1: after every operation that writes the by-height map of the
\* main-chain index, the by-height and the by-hash map mirror each other:
\* every by-height value is the by-hash value at its id, and every
\* by-hash value is the value of exactly one by-height entry.
C1_MirrorAfterIndexWrite ==
  [][mainchainByHeight' # mainchainByHeight
       => Mirror(mainchainByHeight', mainchainByHash')]_vars

\* The three seed heights of a tip, as the claims name them.
SeedHeightsOf(tip) ==
  { get_seed_height(tip), get_seed_height(tip) - 2048, get_seed_height(tip) - 4096 }

\* The step of handle_miner_data on the ZMQ thread that writes the index
\* and runs the cleanup.
MinerDataIndexStep == zmq.pc = "md_index" /\ zmq'.pc = "md_store"

\* C2 (as amended): after the cleanup that handle_miner_data runs with
\* tip = data.height, every height h still in the by-height map satisfies
\* h + 720 >= tip or is one of the three seed heights of tip.
C2_CleanupSurvivors ==
  [][MinerDataIndexStep =>
       \A h \in DOMAIN mainchainByHeight' :
         \/ h + 720 >= zmq.data.height
         \/ h \in SeedHeightsOf(zmq.data.height)]_vars

\* C2 as stated: after that cleanup every height still in the by-height
\* map lies within [tip - 719, tip] or is one of the three seed heights.
C2_CleanupSurvivorsWithin719 ==
  [][MinerDataIndexStep =>
       \A h \in DOMAIN mainchainByHeight' :
         \/ h \in (zmq.data.height - 719)..zmq.data.height
         \/ h \in SeedHeightsOf(zmq.data.height)]_vars

\* A cleanup for the tip SteadyHeight + 1 has run: the height tip - 721 is
\* gone, the height tip - 720 and the seed height are still there.
C2_CleanupRan ==
  /\ zmq.pc = "md_store"
  /\ zmq.data.height = SteadyHeight + 1
  /\ (SteadyHeight - 720) \notin DOMAIN mainchainByHeight
  /\ (SteadyHeight + 1 - 720) \in DOMAIN mainchainByHeight
  /\ get_seed_height(SteadyHeight + 1) \in DOMAIN mainchainByHeight

\* What C3 says a cleanup for tip removes: the entries of height h with
\* h + 720 < tip that are not at a seed height.
C3_Removed(tip, h) == h + 720 < tip /\ h \notin SeedHeightsOf(tip)

\* C3: the cleanup that the first handle_miner_data runs removes, from both
\* maps, exactly the entries whose height h satisfies h + 720 < tip and is
\* no seed height of tip, and leaves every other entry as it was.
C3_CleanupExact ==
  [][("get_miner_data" \notin seen /\ "get_miner_data" \in seen') =>
       LET tip == minerData'.height
           pre == miner_data_writes(mainchainByHeight, mainchainByHash, minerData')
       IN  /\ mainchainByHeight' =
                [h \in { x \in DOMAIN pre[1] : ~C3_Removed(tip, x) } |-> pre[1][h]]
           /\ mainchainByHash' =
                [k \in { x \in DOMAIN pre[2] : ~C3_Removed(tip, pre[2][x].height) }
                   |-> pre[2][k]]]_vars

NoServers == [zmq |-> 0, stratum |-> 0, p2p |-> 0]
AllServers == [zmq |-> 1, stratum |-> 1, p2p |-> 1]

\* C4: the ZMQ reader, the stratum server and the P2P server are created at
\* most once, and only by the step that handles a get_block_headers_range
\* response whose 720 headers are then in the index; at that moment the
\* index holds at least 721 entries and the median timestamp is not zero.
C4_ServersOnceAfterRange ==
  [][/\ servers'.zmq <= 1 /\ servers'.stratum <= 1 /\ servers'.p2p <= 1
     /\ servers' # servers =>
          /\ servers = NoServers
          /\ servers' = AllServers
          /\ \E req \in rpc \ rpc' :
               /\ req.method = "get_block_headers_range"
               /\ \A h \in (req.height - 720)..(req.height - 1) :
                    /\ h \in DOMAIN mainchainByHeight'
                    /\ mainchainByHeight'[h] = DaemonHeader(h, 0)
          /\ Cardinality(DOMAIN mainchainByHeight') >= 721
          /\ minerData'.median_timestamp # 0]_vars

\* The servers have been started.
C4_ServersStarted ==
  /\ serversStarted = 1
  /\ servers = AllServers
  /\ Cardinality(DOMAIN mainchainByHeight) >= 721
  /\ minerData.median_timestamp # 0

\* C5: no failure of a bootstrap step leaves the state machine stuck or
\* aborts the process: the process never ends on a failed header request,
\* and as long as the servers are not started a request is in flight.
C5_EveryFailureRetried ==
  /\ process \notin {"panic_seed_header", "panic_headers_range"}
  /\ (Running /\ serversStarted = 0) => rpc # {}

HeaderMethods == {"get_block_header_by_height", "get_block_headers_range"}

\* C6: get_version is requested only after a get_info answer that shows a
\* synchronized daemon on the side chain's network, get_miner_data only
\* after a get_version answer with status OK and a version of at least 3.8,
\* headers only after a parsed get_miner_data answer; after a network
\* mismatch or a lower version the process has ended and no request of a
\* later step was issued.
C6_BootstrapGated ==
  /\ "get_version" \in issued => "get_info" \in seen
  /\ "get_miner_data" \in issued => "get_version" \in seen
  /\ issued \cap HeaderMethods # {} => "get_miner_data" \in seen
  /\ "network_mismatch" \in seen =>
       /\ process = "panic_network"
       /\ rpc = {}
       /\ issued = {"get_info"}
  /\ "old_version" \in seen =>
       /\ process = "panic_version"
       /\ rpc = {}
       /\ issued = {"get_info", "get_version"}

\* The daemon answered get_version with a version below 3.8.
C6_OldVersionSeen == "old_version" \in seen /\ process = "panic_version"

\* The miner data messages and the heights of the model.
TemplateHeights == ZmqHeights \cup {SteadyHeight}

\* C7: every template rebuild hands the builder a miner_data and a mempool
\* of one handle_miner_data call: a transaction of the tx_backlog of the
\* miner data for height h on fork f is in the mempool the builder saw only
\* together with the miner_data of that height and fork.
C7_ConsistentPair ==
  blockTemplate.updated =>
    \A h \in TemplateHeights, f \in Forks :
      Backlog(h, f) \cap blockTemplate.mempool # {} =>
        /\ blockTemplate.miner_data.height = h
        /\ blockTemplate.miner_data.prev_id = BlockId(h - 1, f)

\* A MinerData without the median timestamp, which is computed afterwards.
Snapshot(md) == [md EXCEPT !.median_timestamp = 0]

\* The callback of m_blockTemplateAsync runs.
RebuildStep == blockTemplateAsync /\ ~blockTemplateAsync'

\* C8: template rebuilds are latest-wins: the MinerData a rebuild uses is
\* the latest one stored, or the one being stored at that moment.
C8_LatestWins ==
  [][RebuildStep =>
       \/ Snapshot(blockTemplate'.miner_data) = Snapshot(stored[Len(stored)])
       \/ /\ zmq.pc = "md_store_end"
          /\ Snapshot(blockTemplate'.miner_data) = Snapshot(zmq.data)]_vars

\* C9: a step of the ZMQ reader thread writes neither m_minerData (its
\* median timestamp included) nor m_updateSeed, nor the hasher or the block
\* template.
C9_OffLoopWrites ==
  [][(zmq' # zmq \/ zmqEvents' # zmqEvents) =>
       UNCHANGED << minerData, updateSeed, hasher, blockTemplate >>]_vars

\* The value of a hex digit.
HexValue(c) == CHOOSE n \in 0..15 : HexDigits[n + 1] = c

\* params is the lower-case hex rendering of blob, two digits per byte.
IsHexOf(params, blob) ==
  /\ Len(params) = 2 * Len(blob)
  /\ \A k \in 1..Len(params) : \E n \in 0..15 : HexDigits[n + 1] = params[k]
  /\ \A i \in 1..Len(blob) :
       16 * HexValue(params[2 * i - 1]) + HexValue(params[2 * i]) = blob[i]

\* The callback of m_submitBlockAsync runs.
SubmitDispatch == submitBlockAsync /\ ~submitBlockAsync'

\* C10 (as amended): a dispatch of submit_block issues at most one
\* submit_block request: exactly one when the submit data holds a
\* non-empty external blob, whose hex rendering is then the parameter, or
\* the id of a template the block template knows, and none otherwise; no
\* step but a dispatch, so no answer of the daemon, issues a request.
C10_OneRequestPerDispatch ==
  [][/\ Len(submitSent') # Len(submitSent) => SubmitDispatch
     /\ SubmitDispatch =>
          IF submitBlockData.blob # << >>
            THEN /\ Len(submitSent') = Len(submitSent) + 1
                 /\ IsHexOf(submitSent'[Len(submitSent')].params, submitBlockData.blob)
          ELSE IF submitBlockData.template_id = KnownTemplate
            THEN Len(submitSent') = Len(submitSent) + 1
          ELSE submitSent' = submitSent]_vars

\* C10 as stated: every dispatch issues exactly one submit_block request,
\* and no other step issues one.
C10_ExactlyOneRequest ==
  [][/\ Len(submitSent') # Len(submitSent) => SubmitDispatch
     /\ SubmitDispatch => Len(submitSent') = Len(submitSent) + 1]_vars

\* One call with an external blob was dispatched and answered.
C10_BlobSubmitted ==
  /\ submitCalls = 1
  /\ submitBlockData.blob # << >>
  /\ Len(submitSent) = 1
  /\ submitSent[1].external
  /\ submitInFlight = 0

\* C11: no request a submit_block_async call stored is sent to the daemon
\* by two dispatches: the entries of submitSent name different calls.
C11_ConsumedOnce ==
  \A i, j \in DOMAIN submitSent :
    i # j => submitSent[i].posted # submitSent[j].posted

\* C12: whatever number of submit_block_async calls came before it, a
\* dispatch finds in m_submitBlockData the data of the last call that
\* stored, whole, and the request it sends (or, for an unknown template or
\* an empty blob, does not send) is the one these data give.
C12_LastPostedWins ==
  [][SubmitDispatch =>
       LET last == submitPosted[Len(submitPosted)]
           r    == submit_block(last)
       IN  /\ submitBlockData = last
           /\ IF r[1]
                THEN submitSent' = Append(submitSent,
                                          [params |-> r[2], external |-> r[3],
                                           posted |-> Len(submitPosted)])
                ELSE submitSent' = submitSent]_vars

\* Two different calls, the first of which would have been sent, stored
\* before the only dispatch, which sent the second.
C12_SecondOfTwoSent ==
  /\ Len(submitPosted) = 2
  /\ submitPosted[1] # submitPosted[2]
  /\ submit_block(submitPosted[1])[1]
  /\ submitCaller = 0
  /\ ~submitBlockAsync
  /\ Len(submitSent) = 1
  /\ submitSent[1].posted = 2

\* ------------------------------------------- the hex loop of submit_block
\* The blob and the offsets BlockTemplate::get_block_template_blob may
\* hand to the loop of lines 424-440, and the nonces of the call.
SpliceNonce == 16909060
SpliceExtraNonce == 84281096

SpliceInputs ==
  [fn : {"submit_request"}, blob : {TemplateBlob},
   nonce_offset : 0..(Len(TemplateBlob) - 1),
   extra_nonce_offset : 0..(Len(TemplateBlob) - 1),
   nonce : {SpliceNonce}, extra_nonce : {SpliceExtraNonce}]

SpliceInit == FnState /\ fnInput \in SpliceInputs /\ fnOutput = << >>

\* submit_block, lines 415-441, for an internal submission
SubmitRequest ==
  /\ fnInput.fn = "submit_request"
  /\ fnOutput = << >>
  /\ fnOutput' = submit_request(fnInput.blob, fnInput.nonce_offset,
                                fnInput.extra_nonce_offset,
                                fnInput.nonce, fnInput.extra_nonce)
  /\ UNCHANGED << procVars, rpcVars, indexVars, tmplVars, srvVars, ledgerVars, zmqVars,
                  submitVars, fnInput,
                  stopVars, wakeVars >>

SpecSplice == SpliceInit /\ [][SubmitRequest]_vars

\* The bytes a hex string decodes to.
HexDecode(params) ==
  [i \in 1..(Len(params) \div 2) |->
     16 * HexValue(params[2 * i - 1]) + HexValue(params[2 * i])]

\* The four bytes of a 32-bit value, least significant first.
le(n) == << n % 256, (n \div 256) % 256, (n \div 65536) % 256, (n \div 16777216) % 256 >>

\* Index i (from 0) lies in the four bytes at offset.
InRange(offset, i) == offset <= i /\ i < offset + 4

\* The request of the loop has been rendered.
Spliced == fnInput # << >> /\ fnInput.fn = "submit_request" /\ fnOutput # << >>

\* C13 as stated: for every X and Y inside the blob the request decodes
\* to the blob with bytes [X, X+4) replaced by le(nonce) and bytes
\* [Y, Y+4) by le(extra_nonce), every other byte unchanged.
C13_SpliceEveryOffset ==
  Spliced =>
    LET X == fnInput.nonce_offset
        Y == fnInput.extra_nonce_offset
        d == HexDecode(fnOutput)
    IN  /\ Len(d) = Len(fnInput.blob)
        /\ \A i \in 0..(Len(d) - 1) :
             /\ InRange(X, i) => d[i + 1] = le(fnInput.nonce)[i - X + 1]
             /\ InRange(Y, i) => d[i + 1] = le(fnInput.extra_nonce)[i - Y + 1]
             /\ (~InRange(X, i) /\ ~InRange(Y, i)) => d[i + 1] = fnInput.blob[i + 1]

\* C13 (as amended): an offset of 0 means "no offset" and its bytes are
\* sent as the blob has them; for offsets X, Y that are 0 or whose four
\* bytes do not overlap, the request decodes to the blob with bytes
\* [X, X+4) (X # 0) replaced by le(nonce) and bytes [Y, Y+4) (Y # 0) by
\* le(extra_nonce), as far as the blob reaches, every other byte unchanged.
C13_SpliceNonZeroDisjoint ==
  Spliced =>
    LET X == fnInput.nonce_offset
        Y == fnInput.extra_nonce_offset
        d == HexDecode(fnOutput)
    IN  (X = 0 \/ Y = 0 \/ X + 4 <= Y \/ Y + 4 <= X) =>
          /\ Len(d) = Len(fnInput.blob)
          /\ \A i \in 0..(Len(d) - 1) :
               d[i + 1] = IF X # 0 /\ InRange(X, i)
                            THEN le(fnInput.nonce)[i - X + 1]
                          ELSE IF Y # 0 /\ InRange(Y, i)
                            THEN le(fnInput.extra_nonce)[i - Y + 1]
                          ELSE fnInput.blob[i + 1]

\* The template of the model, offsets 1 and 6, has been rendered.
C13_TemplateSpliced ==
  /\ Spliced
  /\ fnInput.nonce_offset = TemplateNonceOffset
  /\ fnInput.extra_nonce_offset = TemplateExtraNonceOffset
  /\ HexDecode(fnOutput) = << 14, 4, 3, 2, 1, 200, 8, 7, 6, 5, 7 >>

\* C14 as stated: in every state m_submitBlockData has an empty blob or
\* template_id = nonce = extra_nonce = 0, and not both.
C14_BlobXorHandle ==
  (submitBlockData.blob = << >>)
    # (/\ submitBlockData.template_id = 0
       /\ submitBlockData.nonce = 0
       /\ submitBlockData.extra_nonce = 0)

\* C14 (as amended): in every state, the initial one and the one after
\* either submit_block_async overload included, a non-empty blob in
\* m_submitBlockData comes with template_id = nonce = extra_nonce = 0, and
\* a non-zero template_id, nonce or extra_nonce with an empty blob; both
\* are empty and zero before the first call, after a call with an empty
\* blob and after a call with three zeros.
C14_BlobExcludesHandle ==
  /\ submitBlockData.blob # << >> =>
       /\ submitBlockData.template_id = 0
       /\ submitBlockData.nonce = 0
       /\ submitBlockData.extra_nonce = 0
  /\ submitCalls = 0 => submitBlockData = DefaultSubmitBlockData

\* A call with a template handle, then a call with a non-empty blob.
C14_HandleThenBlob ==
  /\ Len(submitPosted) = 2
  /\ submitPosted[1].template_id # 0
  /\ submitPosted[2].blob # << >>
  /\ submitBlockData = submitPosted[2]

\* --------------------------------------------------------- get_seed_height
\* The heights get_seed_height is applied to: 0 up to a height past the
\* second epoch boundary.
MaxSeedInput == 4300

SeedInit ==
  /\ FnState
  /\ fnInput \in [fn : {"get_seed_height"}, height : 0..MaxSeedInput]
  /\ fnOutput = << >>

\* get_seed_height(height), lines 139-145
GetSeedHeight ==
  /\ fnInput.fn = "get_seed_height"
  /\ fnOutput = << >>
  /\ fnOutput' = << get_seed_height(fnInput.height) >>
  /\ UNCHANGED << procVars, rpcVars, indexVars, tmplVars, srvVars, ledgerVars, zmqVars,
                  submitVars, fnInput,
                  stopVars, wakeVars >>

SpecSeed == SeedInit /\ [][GetSeedHeight]_vars

\* C15: get_seed_height(h) is 0 for h <= 64; for h > 64 it is h - 65 with
\* its low 11 bits cleared: a multiple of 2048, not above h - 65 and less
\* than 2048 below it, so get_seed_height(h) + 64 < h.
C15_SeedHeight ==
  (fnInput # << >> /\ fnInput.fn = "get_seed_height" /\ fnOutput # << >>) =>
    LET h == fnInput.height
        s == fnOutput[1]
    IN  IF h <= 64
          THEN s = 0
          ELSE /\ s % 2048 = 0
               /\ s <= h - 65
               /\ h - 65 - s < 2048
               /\ s + 64 < h

\* The first height of the second epoch: 2048 + 64 + 1.
C15_SecondEpoch ==
  /\ fnInput # << >>
  /\ fnInput.fn = "get_seed_height"
  /\ fnInput.height = 2113
  /\ fnOutput = << 2048 >>

\* --------------------------------------------------- the median timestamp
\* The by-height indexes update_median_timestamp is applied to hold the
\* heights of 5001..5000 + span: from empty to a few entries past
\* TIMESTAMP_WINDOW.
MaxIndexSpan == 72

\* An index holds all these heights (0), or all but the multiples of 10.
IndexGaps == {0, 10}

\* Timestamps that do not grow with the height, odd and even.
ScrambledTimestamp(h) == 1000000 + ((h * 37) % 101)

ScrambledIndex(span, gap) ==
  [h \in { g \in 5001..(5000 + span) : gap = 0 \/ g % gap # 0 } |->
     [height |-> h, id |-> BlockId(h, 0), timestamp |-> ScrambledTimestamp(h),
      reward |-> BlockReward(h), difficulty |-> BlockDifficulty(h)]]

MedianInit ==
  /\ \E span \in 0..MaxIndexSpan, gap \in IndexGaps :
       /\ FnStateOver(FALSE, ScrambledIndex(span, gap))
       /\ fnInput = [fn |-> "update_median_timestamp", span |-> span, gap |-> gap]
  /\ fnOutput = << >>

\* update_median_timestamp(), lines 624-638, with what get_timestamps
\* handed it
UpdateMedianTimestamp ==
  /\ fnInput.fn = "update_median_timestamp"
  /\ fnOutput = << >>
  /\ fnOutput' = get_timestamps(mainchainByHeight)
  /\ minerData' = [minerData EXCEPT
                     !.median_timestamp = update_median_timestamp(mainchainByHeight)]
  /\ UNCHANGED << procVars, rpcVars, indexVars, updateSeed, mempool, hasher,
                  blockTemplate, srvVars, ledgerVars, zmqVars, submitVars, fnInput,
                  stopVars, wakeVars >>

SpecMedian == MedianInit /\ [][UpdateMedianTimestamp]_vars

\* The k-th highest key (k from 1) of a set of heights.
KthHighest(dom, k) == CHOOSE h \in dom : Cardinality({ g \in dom : g > h }) = k - 1

\* C16: get_timestamps fails exactly when m_mainchainByHeight holds
\* TIMESTAMP_WINDOW entries or fewer, and the median timestamp is then 0;
\* otherwise it yields the timestamps of the TIMESTAMP_WINDOW highest
\* heights, highest first, and the median timestamp is
\* (a[W/2] + a[W/2 + 1]) / 2 of these sorted ascending, a counted from 0.
C16_MedianTimestamp ==
  (fnInput # << >> /\ fnInput.fn = "update_median_timestamp" /\ fnOutput # << >>) =>
    LET dom == DOMAIN mainchainByHeight
        W   == TIMESTAMP_WINDOW
        a   == SortSeq(fnOutput[2], LAMBDA x, y : x < y)
    IN  /\ fnOutput[1] = (Cardinality(dom) > W)
        /\ ~fnOutput[1] => minerData.median_timestamp = 0
        /\ fnOutput[1] =>
             /\ Len(fnOutput[2]) = W
             /\ \A k \in 1..W :
                  fnOutput[2][k] = mainchainByHeight[KthHighest(dom, k)].timestamp
             /\ minerData.median_timestamp
                  = (a[W \div 2 + 1] + a[W \div 2 + 2]) \div 2

\* An index of exactly TIMESTAMP_WINDOW + 1 heights with gaps gave a median.
C16_WindowPlusOne ==
  /\ fnInput # << >>
  /\ fnInput.fn = "update_median_timestamp"
  /\ Cardinality(DOMAIN mainchainByHeight) = TIMESTAMP_WINDOW + 1
  /\ fnInput.gap = 10
  /\ fnOutput # << >>
  /\ fnOutput[1]
  /\ minerData.median_timestamp > 1000000

\* --------------------------------------------------- api_update_block_found
\* How many calls of api_update_block_found a run of the model makes.
MaxFoundCalls == 3

\* The index the calls find: the heights 5001 and 5002.
FoundIndex == ScrambledIndex(2, 0)

\* The blocks api_update_block_found is called with: two whose heights the
\* index has and one whose height it does not have.
FoundData == { DaemonHeader(h, 0) : h \in 5001..5003 }

FoundInit ==
  /\ \E api \in BOOLEAN : FnStateOver(api, FoundIndex)
  /\ fnInput = [fn |-> "api_update_block_found"]
  /\ fnOutput = << >>

\* api_update_block_found(nullptr), lines 1133-1181: nothing is recorded;
\* api_update_stats_mod (line 1180) looks the tip up.
BlockFoundNull ==
  /\ fnInput.fn = "api_update_block_found"
  /\ Len(fnOutput) < MaxFoundCalls
  /\ fnOutput' = Append(fnOutput, "nullptr")
  /\ apiBlocks' = IF apiEnabled THEN api_set_blocks(foundBlocks) ELSE apiBlocks
  /\ mainchainByHash' = api_tip_lookup(apiEnabled, mainchainByHash, minerData.prev_id)
  /\ UNCHANGED << procVars, rpcVars, mainchainByHeight, tmplVars, srvVars, foundBlocks,
                  ledger, zmqVars, submitVars, fnInput,
                  stopVars, wakeVars >>

\* api_update_block_found(&data), lines 1133-1181
BlockFound ==
  /\ fnInput.fn = "api_update_block_found"
  /\ Len(fnOutput) < MaxFoundCalls
  /\ \E data \in FoundData :
       /\ fnOutput' = Append(fnOutput, data.height)
       /\ IF apiEnabled
            THEN LET r == api_update_block_found(mainchainByHeight, foundBlocks,
                                                 ledger, data)
                 IN  /\ foundBlocks' = r[1]
                     /\ ledger' = r[2]
                     /\ apiBlocks' = api_set_blocks(r[1])
            ELSE UNCHANGED ledgerVars
  /\ mainchainByHash' = api_tip_lookup(apiEnabled, mainchainByHash, minerData.prev_id)
  /\ UNCHANGED << procVars, rpcVars, mainchainByHeight, tmplVars, srvVars,
                  zmqVars, submitVars, fnInput,
                  stopVars, wakeVars >>

FoundNext == BlockFoundNull \/ BlockFound

SpecFound == FoundInit /\ [][FoundNext]_vars

RECURSIVE dec(_)
dec(n) == IF n < 10 THEN << HexDigits[n + 1] >>
          ELSE dec(n \div 10) \o << HexDigits[(n % 10) + 1] >>

\* operator<< of a hash, declared outside p2pool.cpp: hex digits at a fixed
\* width (four here, for the ids of the model).
hash_hex(id) ==
  << HexDigits[((id \div 4096) % 16) + 1], HexDigits[((id \div 256) % 16) + 1],
     HexDigits[((id \div 16) % 16) + 1], HexDigits[(id % 16) + 1] >>

\* api_update_block_found, line 1148: the line written for a found block
found_block_line(rec) ==
  dec(rec.timestamp) \o << " " >> \o dec(rec.height) \o << " " >>
    \o hash_hex(rec.id) \o << " " >> \o dec(rec.block_diff) \o << " " >>
    \o dec(rec.total_hashes) \o << "\n" >>

DecChars == { HexDigits[i] : i \in 1..10 }
HexChars == { HexDigits[i] : i \in 1..16 }

RECURSIVE skip_ws(_, _)
skip_ws(text, pos) ==
  IF pos <= Len(text) /\ text[pos] \in {" ", "\n"} THEN skip_ws(text, pos + 1) ELSE pos

RECURSIVE token_end(_, _, _)
token_end(text, pos, chars) ==
  IF pos <= Len(text) /\ text[pos] \in chars THEN token_end(text, pos + 1, chars) ELSE pos

\* The stream before the first character of the file.
stream_open == [pos |-> 1, eof |-> FALSE, fail |-> FALSE, token |-> << >>]

\* f >> x: on a stream that is not good nothing is read and failbit is set;
\* otherwise white space is skipped and the characters of the value are
\* read.  eofbit is set when the end of the file is met, while skipping or
\* while reading; failbit when no character of the value was read.
extract(text, s, chars) ==
  IF s.eof \/ s.fail
    THEN [s EXCEPT !.fail = TRUE, !.token = << >>]
    ELSE LET p == skip_ws(text, s.pos)
             q == token_end(text, p, chars)
         IN  [pos |-> q, eof |-> q > Len(text), fail |-> q = p,
              token |-> SubSeq(text, p, q - 1)]

\* The number a token of digits stands for; 0 for no digits at all.
RECURSIVE token_value(_, _)
token_value(token, base) ==
  IF token = << >> THEN 0
  ELSE base * token_value(SubSeq(token, 1, Len(token) - 1), base)
         + HexValue(token[Len(token)])

\* load_found_blocks, the loop of lines 687-708 from the stream state s on
RECURSIVE load_found_blocks_loop(_, _, _)
load_found_blocks_loop(text, s, found) ==
  IF s.eof THEN found
  ELSE LET t1 == extract(text, s, DecChars)
           t2 == extract(text, t1, DecChars)
           t3 == extract(text, t2, HexChars)
           t4 == extract(text, t3, DecChars)
           t5 == extract(text, t4, DecChars)
       IN  IF t1.eof \/ t2.eof \/ t3.eof \/ t4.eof THEN found
           ELSE load_found_blocks_loop(text, t5,
                  Append(found, [timestamp |-> token_value(t1.token, 10),
                                 height |-> token_value(t2.token, 10),
                                 id |-> token_value(t3.token, 16),
                                 block_diff |-> token_value(t4.token, 10),
                                 total_hashes |-> token_value(t5.token, 10)]))

\* load_found_blocks, lines 683-708: the found blocks read from the file
load_found_blocks(text) == load_found_blocks_loop(text, stream_open, << >>)

\* How many complete records the files of the model hold.
MaxLedgerRecords == 2

\* The k-th found block of a file.
FoundRecord(k) ==
  [timestamp |-> 1590000 + k, height |-> 4000 + k, id |-> BlockId(4000 + k, 0),
   block_diff |-> BlockDifficulty(4000 + k), total_hashes |-> 70 + k]

RECURSIVE complete_records(_)
complete_records(k) ==
  IF k = 0 THEN << >> ELSE complete_records(k - 1) \o found_block_line(FoundRecord(k))

\* A file of k complete records followed by the first cut characters of
\* the next record.
LedgerText(k, cut) ==
  complete_records(k) \o SubSeq(found_block_line(FoundRecord(k + 1)), 1, cut)

\* A record is cut off at least one character before the end of its last
\* field (cut = 0: the file ends with its last complete record).
MaxCut == Len(found_block_line(FoundRecord(1))) - 2

LoadInit ==
  /\ FnStateOver(TRUE, << >>)
  /\ \E k \in 0..MaxLedgerRecords, cut \in 0..MaxCut :
       fnInput = [fn |-> "load_found_blocks", records |-> k, cut |-> cut,
                  file |-> LedgerText(k, cut)]
  /\ fnOutput = << >>

\* load_found_blocks(), lines 677-712, with m_api set and the file there:
\* the records read are added to m_foundBlocks, and
\* api_update_block_found(nullptr) ends in api_update_stats_mod, which looks
\* the tip up.
LoadFoundBlocks ==
  /\ fnInput.fn = "load_found_blocks"
  /\ fnOutput = << >>
  /\ foundBlocks' = foundBlocks \o load_found_blocks(fnInput.file)
  /\ apiBlocks' = api_set_blocks(foundBlocks')
  /\ mainchainByHash' = api_tip_lookup(apiEnabled, mainchainByHash, minerData.prev_id)
  /\ fnOutput' = << "loaded" >>
  /\ UNCHANGED << procVars, rpcVars, mainchainByHeight, tmplVars, srvVars, ledger,
                  zmqVars, submitVars, fnInput,
                  stopVars, wakeVars >>

SpecLoad == LoadInit /\ [][LoadFoundBlocks]_vars

\* The file of the model has been loaded.
Loaded == fnInput # << >> /\ fnInput.fn = "load_found_blocks" /\ fnOutput # << >>

\* C18: loading a file of K complete records, followed or not by a record
\* cut off at any point, gives exactly the K complete records, with their
\* field values, in the order of the file.
C18_LoadsCompleteRecords ==
  Loaded => foundBlocks = [k \in 1..fnInput.records |-> FoundRecord(k)]

\* ------------------------------------- handle_chain_main: the extra field
\* HASH_SIZE is declared outside p2pool.cpp: a hash has 32 bytes.
HASH_SIZE == 32

EmptyHash == [i \in 1..HASH_SIZE |-> 0]

\* A loop that stops at a character that is no hex digit and keeps the
\* bytes decoded so far.
RECURSIVE sidechain_id_loop_no_reset(_, _, _)
sidechain_id_loop_no_reset(s, i, id) ==
  IF i = HASH_SIZE THEN id
  ELSE IF s[2 * i + 1] \notin HexChars \/ s[2 * i + 2] \notin HexChars THEN id
  ELSE sidechain_id_loop_no_reset(s, i + 1,
         [id EXCEPT ![i + 1] = 16 * HexValue(s[2 * i + 1]) + HexValue(s[2 * i + 2])])

\* handle_chain_main, the loop of lines 307-314 from byte i on: s is the
\* last 2 * HASH_SIZE characters of extra; from_hex fails on a character
\* that is no hex digit, and the id is then reset.
RECURSIVE sidechain_id_loop(_, _, _)
sidechain_id_loop(s, i, id) ==
  IF i = HASH_SIZE THEN id
  ELSE IF s[2 * i + 1] \notin HexChars \/ s[2 * i + 2] \notin HexChars THEN EmptyHash
  ELSE sidechain_id_loop(s, i + 1,
         [id EXCEPT ![i + 1] = 16 * HexValue(s[2 * i + 1]) + HexValue(s[2 * i + 2])])

\* handle_chain_main, lines 302-316: the side chain id the extra field ends in
sidechain_id_of(extra) ==
  IF extra.present /\ Len(extra.text) >= HASH_SIZE * 2
    THEN sidechain_id_loop(SubSeq(extra.text, Len(extra.text) - HASH_SIZE * 2 + 1,
                                  Len(extra.text)), 0, EmptyHash)
    ELSE EmptyHash

\* The extra fields of the model: none, one that is too short, an all-zero
\* id, an id, an id after other characters, and an id with one character
\* that is no hex digit at any place.
HexId == [k \in 1..(HASH_SIZE * 2) |-> HexDigits[(k % 16) + 1]]

ExtraTexts ==
  { SubSeq(HexId, 1, HASH_SIZE * 2 - 1),
    [k \in 1..(HASH_SIZE * 2) |-> "0"],
    HexId,
    << "0", "1", "x" >> \o HexId }
  \cup { [HexId EXCEPT ![j] = "g"] : j \in 1..(HASH_SIZE * 2) }

Extras ==
  { [present |-> FALSE, text |-> << >>] }
    \cup { [present |-> TRUE, text |-> t] : t \in ExtraTexts }

ExtraInit ==
  /\ FnStateOver(TRUE, FoundIndex)
  /\ \E extra \in Extras, has \in BOOLEAN :
       fnInput = [fn |-> "handle_chain_main", extra |-> extra, has_block |-> has]
  /\ fnOutput = << >>

\* handle_chain_main, lines 302-333, for a block whose height the index
\* has: the calls made to the side chain and to api_update_block_found,
\* then api_update_network_stats.
HandleChainMainExtra ==
  /\ fnInput.fn = "handle_chain_main"
  /\ fnOutput = << >>
  /\ LET id      == sidechain_id_of(fnInput.extra)
         consult == id # EmptyHash
         found   == consult /\ fnInput.has_block
         data    == DaemonHeader(5001, 0)
     IN  /\ fnOutput' = << [sidechain_id |-> id,
                            has_block |-> IF consult THEN 1 ELSE 0,
                            api_update_block_found |-> IF found THEN 1 ELSE 0,
                            watch_mainchain_block |->
                              IF consult /\ ~fnInput.has_block THEN 1 ELSE 0] >>
         /\ IF found /\ apiEnabled
              THEN LET r == api_update_block_found(mainchainByHeight, foundBlocks,
                                                   ledger, data)
                   IN  /\ foundBlocks' = r[1]
                       /\ ledger' = r[2]
                       /\ apiBlocks' = api_set_blocks(r[1])
              ELSE UNCHANGED ledgerVars
  /\ mainchainByHash' = api_tip_lookup(apiEnabled, mainchainByHash, minerData.prev_id)
  /\ UNCHANGED << procVars, rpcVars, mainchainByHeight, tmplVars, srvVars,
                  zmqVars, submitVars, fnInput,
                  stopVars, wakeVars >>

SpecExtra == ExtraInit /\ [][HandleChainMainExtra]_vars

\* The extra field is there and its last 64 characters are hex digits, not
\* all of them 0.
ExtraNamesBlock(extra) ==
  /\ extra.present
  /\ Len(extra.text) >= 64
  /\ \A k \in (Len(extra.text) - 63)..Len(extra.text) : extra.text[k] \in HexChars
  /\ \E k \in (Len(extra.text) - 63)..Len(extra.text) : extra.text[k] # "0"

MaxTxs == 3

\* The transactions of these messages: with and without weight and fee.
TxInputs ==
  { [Tx(n) EXCEPT !.weight = w, !.fee = f] : n \in 1..2, w \in {0, 1500}, f \in {0, 30000} }

TxInit == FnState /\ fnInput = [fn |-> "handle_tx"] /\ fnOutput = << >>

\* handle_tx(tx), lines 160-180; fnOutput keeps the messages handled
HandleTx ==
  /\ fnInput.fn = "handle_tx"
  /\ Len(fnOutput) < MaxTxs
  /\ \E tx \in TxInputs :
       /\ mempool' = mempool_after_tx(mempool, tx)
       /\ fnOutput' = Append(fnOutput, tx)
  /\ UNCHANGED << procVars, rpcVars, indexVars, minerData, updateSeed, hasher,
                  blockTemplate, srvVars, ledgerVars, zmqVars, submitVars, fnInput,
                  stopVars, wakeVars >>

SpecTx == TxInit /\ [][HandleTx]_vars

\* C20: handle_tx of a transaction with weight 0 or fee 0 leaves the
\* mempool as it is; with both non-zero the mempool afterwards is the one
\* before with exactly that transaction added.
C20_InvalidTxIgnored ==
  [][(fnInput # << >> /\ fnInput.fn = "handle_tx" /\ Len(fnOutput') = Len(fnOutput) + 1) =>
       LET tx == fnOutput'[Len(fnOutput')]
       IN  IF tx.weight = 0 \/ tx.fee = 0
             THEN mempool' = mempool
             ELSE /\ tx \in mempool'
                  /\ mempool' \ {tx} = mempool \ {tx}]_vars

\* A transaction without weight, one without fee and a valid one were
\* handled: the valid one alone is in the mempool.
C20_OneOfThreeAdded ==
  /\ fnInput # << >>
  /\ fnInput.fn = "handle_tx"
  /\ Len(fnOutput) = 3
  /\ fnOutput[1].weight = 0 /\ fnOutput[1].fee # 0
  /\ fnOutput[2].fee = 0 /\ fnOutput[2].weight # 0
  /\ fnOutput[3].weight # 0 /\ fnOutput[3].fee # 0
  /\ mempool = { fnOutput[3] }

\* ------------------------------------------------- the published found blocks
\* The longest file of found blocks the coordinator starts with: past the
\* 51 entries a snapshot holds.
MaxLedgerSize == 52

\* The files p2pool.blocks at startup: none, an empty one, one record, and
\* files around 51 records.
StartupLedgers ==
  { [exists |-> FALSE, records |-> << >>] }
    \cup { [exists |-> TRUE, records |-> [k \in 1..n |-> FoundRecord(k)]] :
             n \in {0, 1} \cup ((MaxLedgerSize - 2)..MaxLedgerSize) }

StartupInit ==
  /\ \E lg \in StartupLedgers : FnStateWith(TRUE, FoundIndex, lg)
  /\ fnInput = [fn |-> "load_found_blocks", loaded |-> FALSE]
  /\ fnOutput = << >>

\* load_found_blocks() at startup (lines 677-712) on a file of complete
\* records; api_update_block_found(nullptr) follows only when the file
\* could be opened.
StartupLoad ==
  /\ fnInput.fn = "load_found_blocks"
  /\ "loaded" \in DOMAIN fnInput
  /\ fnInput' = [fn |-> "api_update_block_found", loaded |-> TRUE]
  /\ IF apiEnabled /\ ledger.exists
       THEN /\ foundBlocks' = foundBlocks \o ledger.records
            /\ apiBlocks' = api_set_blocks(foundBlocks')
            /\ mainchainByHash' = api_tip_lookup(apiEnabled, mainchainByHash,
                                                 minerData.prev_id)
       ELSE UNCHANGED << foundBlocks, apiBlocks, mainchainByHash >>
  /\ UNCHANGED << procVars, rpcVars, mainchainByHeight, tmplVars, srvVars, ledger,
                  zmqVars, submitVars, fnOutput,
                  stopVars, wakeVars >>

BlocksNext == StartupLoad \/ BlockFoundNull \/ BlockFound

SpecBlocks == StartupInit /\ [][BlocksNext]_vars

\* The startup load is over.
StartupLoaded == fnInput # << >> /\ "loaded" \in DOMAIN fnInput /\ fnInput.loaded

\* C21: after the startup load and after every api_update_block_found, the
\* "blocks" snapshot is published and holds the last min(51, n) entries of
\* m_foundBlocks, newest first.
C21_SnapshotNewestFirst ==
  StartupLoaded =>
    LET n == Len(foundBlocks)
        m == IF n < 51 THEN n ELSE 51
    IN  /\ apiBlocks.published
        /\ Len(apiBlocks.blocks) = m
        /\ \A i \in 1..m : apiBlocks.blocks[i] = foundBlocks[n - i + 1]

\* ------------------------------------------------------------- stopping
\* How many signals the model delivers, and how many background jobs run
\* at a time.
MaxSignals == 3
MaxJobs == 2

\* A signal that makes on_signal return after log::reopen() for every
\* signal but none: every signal stops the coordinator.
on_signal_stops_all(signum) == signum \in Signals

\* on_signal (lines 1196-1227): SIGUSR1 reopens the log and returns; every
\* other signal goes on to uv_signal_stop and pool->stop().
on_signal_stops(signum) == signum # "SIGUSR1"

\* What run() does once uv_run has returned (lines 1291-1308).
TeardownSteps ==
  << "delete m_ZMQReader", "m_stopped = true", "bkg_jobs_tracker.wait",
     "delete m_stratumServer", "delete m_p2pServer", "return 0" >>

StopInit == FnState /\ fnInput = << >> /\ fnOutput = << >>

\* p2pool::stop() (lines 1265-1268), from any thread: uv_async_send.
Stop ==
  /\ process \in {"init", "running"}
  /\ "m_stopAsync" \in asyncHandles
  /\ ~stopAsync
  /\ stopAsync' = TRUE
  /\ UNCHANGED << procVars, rpcVars, indexVars, tmplVars, srvVars, ledgerVars, zmqVars,
                  submitVars, fnVars, asyncHandles, signalHandles, caught, teardown,
                  bkgJobs, wakeVars >>

\* on_signal (lines 1196-1227), a callback of the loop.
OnSignal ==
  /\ Running
  /\ Len(caught) < MaxSignals
  /\ \E signum \in signalHandles :
       /\ caught' = Append(caught, signum)
       /\ IF on_signal_stops(signum)
            THEN /\ signalHandles' = signalHandles \ {signum}
                 /\ stopAsync' = TRUE
            ELSE UNCHANGED << signalHandles, stopAsync >>
  /\ UNCHANGED << procVars, rpcVars, indexVars, tmplVars, srvVars, ledgerVars, zmqVars,
                  submitVars, fnVars, asyncHandles, teardown, bkgJobs, wakeVars >>

\* on_stop (lines 372-384), the callback of m_stopAsync: the three wakes
\* are closed and uv_stop makes uv_run return.
OnStop ==
  /\ Running
  /\ stopAsync
  /\ "m_stopAsync" \in asyncHandles
  /\ stopAsync' = FALSE
  /\ asyncHandles' = asyncHandles
                       \ {"m_submitBlockAsync", "m_blockTemplateAsync", "m_stopAsync"}
  /\ process' = "uv_run returned"
  /\ UNCHANGED << apiEnabled, sideChainNetwork, rpcVars, indexVars, tmplVars, srvVars,
                  ledgerVars, zmqVars, submitVars, fnVars, signalHandles, caught,
                  teardown, bkgJobs, wakeVars >>

\* run() after uv_run (lines 1291-1308), one statement at a time;
\* bkg_jobs_tracker.wait() returns when no background job is left.
RunTeardown ==
  /\ process = "uv_run returned"
  /\ Len(teardown) < Len(TeardownSteps)
  /\ LET step == TeardownSteps[Len(teardown) + 1]
     IN  /\ step = "bkg_jobs_tracker.wait" => bkgJobs = 0
         /\ teardown' = Append(teardown, step)
         /\ process' = IF step = "return 0" THEN "returned 0" ELSE process
  /\ UNCHANGED << apiEnabled, sideChainNetwork, rpcVars, indexVars, tmplVars, srvVars,
                  ledgerVars, zmqVars, submitVars, fnVars, stopAsync, asyncHandles,
                  signalHandles, caught, bkgJobs, wakeVars >>

\* A background job (an HTTP callback) begins while the loop runs.
BkgJobStart ==
  /\ Running
  /\ bkgJobs < MaxJobs
  /\ bkgJobs' = bkgJobs + 1
  /\ UNCHANGED << procVars, rpcVars, indexVars, tmplVars, srvVars, ledgerVars, zmqVars,
                  submitVars, fnVars, stopAsync, asyncHandles, signalHandles, caught,
                  teardown, wakeVars >>

\* A background job ends.
BkgJobDone ==
  /\ bkgJobs > 0
  /\ bkgJobs' = bkgJobs - 1
  /\ UNCHANGED << procVars, rpcVars, indexVars, tmplVars, srvVars, ledgerVars, zmqVars,
                  submitVars, fnVars, stopAsync, asyncHandles, signalHandles, caught,
                  teardown, wakeVars >>

StopNext == Run \/ Stop \/ OnSignal \/ OnStop \/ RunTeardown \/ BkgJobStart \/ BkgJobDone

\* main() calls run(); the loop dispatches a pending wake; run() goes on
\* after uv_run; every background job ends.
SpecStop ==
  /\ StopInit
  /\ [][StopNext]_vars
  /\ WF_vars(Run)
  /\ WF_vars(OnStop)
  /\ WF_vars(RunTeardown)
  /\ WF_vars(BkgJobDone)

\* Where a step stands in what run() has done since uv_run returned; 0
\* when it has not been done.
TeardownAt(step) ==
  IF \E i \in 1..Len(teardown) : teardown[i] = step
    THEN CHOOSE i \in 1..Len(teardown) : teardown[i] = step
    ELSE 0

\* step a was done before step b, if b was done at all.
TeardownBefore(a, b) ==
  TeardownAt(b) # 0 => (TeardownAt(a) # 0 /\ TeardownAt(a) < TeardownAt(b))

\* C22: a stop request is followed by the closing of the three wakes and
\* the end of uv_run, and then by the return of run(); the ZMQ reader is
\* deleted before the background jobs are waited for, these before the
\* stratum server is deleted, this before the P2P server, this before the
\* return, all after the wakes are closed; and catching SIGUSR1 asks for no
\* stop.
C22_StopTeardown ==
  /\ stopAsync ~> (asyncHandles = {} /\ process # "running" /\ process # "init")
  /\ stopAsync ~> (process = "returned 0")
  /\ [](/\ TeardownBefore("delete m_ZMQReader", "bkg_jobs_tracker.wait")
        /\ TeardownBefore("bkg_jobs_tracker.wait", "delete m_stratumServer")
        /\ TeardownBefore("delete m_stratumServer", "delete m_p2pServer")
        /\ TeardownBefore("delete m_p2pServer", "return 0")
        /\ (teardown # << >> => asyncHandles = {})
        /\ (TeardownAt("bkg_jobs_tracker.wait") # 0
              /\ TeardownAt("delete m_stratumServer") = 0 => bkgJobs = 0)
        /\ (process = "returned 0" <=> TeardownAt("return 0") # 0))
  /\ [][caught' = Append(caught, "SIGUSR1") => stopAsync' = stopAsync]_vars

\* run() has returned after SIGUSR1 and then SIGTERM were caught.
C22_StoppedBySigterm ==
  /\ process = "returned 0"
  /\ teardown = TeardownSteps
  /\ caught = << "SIGUSR1", "SIGTERM" >>

\* ------------------------------------------------------ the template wake
\* The miner data messages of the ZMQ reader thread against the callback of
\* m_blockTemplateAsync on the loop thread.
WakeNext ==
  \/ MinerDataSwap
  \/ MinerDataIndex
  \/ MinerDataStoreBegin
  \/ MinerDataStoreEnd
  \/ MinerDataUpdateSeed
  \/ MinerDataMedian
  \/ MinerDataAsync
  \/ MinerDataMissing
  \/ BlockTemplateWake

\* The loop dispatches a pending wake.
SpecWake == SteadyInit /\ [][WakeNext]_vars /\ WF_vars(BlockTemplateWake)

\* The runs of update_block_template the wake started.
WakeRuns == { i \in 1..Len(templateRuns) : templateRuns[i].by = "wake" }

\* C23: the k-th update_block_template_async signal is followed by a run of
\* update_block_template on the loop thread that started after it was sent,
\* and there are never more such runs than signals.
C23_WakeCoalesces ==
  /\ \A k \in 1..MaxZmqEvents :
       (templateSignals >= k) ~> (\E i \in WakeRuns : templateRuns[i].signals >= k)
  /\ [](Cardinality(WakeRuns) <= templateSignals)

\* Two signals were sent before one dispatch, which ran the rebuild once.
C23_TwoSignalsOneRun ==
  /\ templateSignals = 2
  /\ Cardinality(WakeRuns) = 1
  /\ ~blockTemplateAsync

\* The runs of update_block_template that told the hasher a seed.
NotifiedRuns ==
  { i \in 1..Len(templateRuns) :
      \E j \in 1..Len(templateRuns[i].calls) :
        templateRuns[i].calls[j] = "RandomX_Hasher::set_seed_async" }

\* The order of the calls of a run that tells the hasher, and of one that
\* does not.
RunWithSeed ==
  << "RandomX_Hasher::set_seed_async", "BlockTemplate::update",
     "StratumServer::on_block", "api_update_pool_stats" >>
RunWithoutSeed ==
  << "BlockTemplate::update", "StratumServer::on_block", "api_update_pool_stats" >>

\* C24: every run of update_block_template tells the hasher first, if at
\* all, then updates the block template, then calls StratumServer::on_block,
\* then publishes the pool stats; it tells the hasher exactly when
\* m_updateSeed is set, with m_minerData.seed_hash, and leaves the flag
\* clear; and the hasher is told at most once per handle_miner_data call.
C24_TemplateRunOrder ==
  /\ [](\A i \in 1..Len(templateRuns) :
          templateRuns[i].calls \in {RunWithSeed, RunWithoutSeed})
  /\ [](Cardinality(NotifiedRuns) <= Len(stored) - 1)
  /\ [][Len(templateRuns') > Len(templateRuns) =>
          LET notified == Len(templateRuns') \in NotifiedRuns'
          IN  /\ notified <=> updateSeed
              /\ ~updateSeed'
              /\ notified => (hasher'.seed_set /\ hasher'.seed = minerData.seed_hash)
              /\ ~notified => hasher' = hasher
              /\ blockTemplate'.updated
              /\ blockTemplate'.miner_data = minerData]_vars

\* Two handle_miner_data calls, and after each a run that told the hasher.
C24_ToldTwice ==
  /\ Len(stored) = 3
  /\ Cardinality(NotifiedRuns) = 2
  /\ ~updateSeed

\* ------------------------------------------------- the fields of an entry
\* C25: no step resets a known timestamp, reward, id or difficulty of an
\* entry of m_mainchainByHeight to zero while the entry stays in the index.
C25_KnownFieldsKept ==
  [][\A h \in DOMAIN mainchainByHeight \cap DOMAIN mainchainByHeight' :
       /\ mainchainByHeight[h].timestamp # 0 => mainchainByHeight'[h].timestamp # 0
       /\ mainchainByHeight[h].reward # 0 => mainchainByHeight'[h].reward # 0
       /\ mainchainByHeight[h].id # ZeroHash => mainchainByHeight'[h].id # ZeroHash
       /\ mainchainByHeight[h].difficulty # 0 => mainchainByHeight'[h].difficulty # 0]_vars

\* ------------------------------------------------- the missing heights
\* The requests handle_miner_data and the callbacks of the missing heights
\* deal with.
HeightRequests(rs) == { r \in rs : r.method = "get_block_header_by_height" /\ r.n = 0 }

\* C26: handle_miner_data asks for headers only when the servers have
\* started, and then for exactly the heights from tip - 719 to tip, at least
\* 1, that m_mainchainByHeight does not hold; the answer to such a request
\* either leaves the index alone or leaves its height in both maps.
C26_MissingHeights ==
  [][/\ (zmq.pc = "md_missing" /\ zmq'.pc # "md_missing") =>
          LET tip  == zmq.data.height
              want == { h \in 1..tip : tip - 719 <= h /\ h \notin DOMAIN mainchainByHeight }
          IN  /\ HeightRequests(rpc') \ HeightRequests(rpc)
                   \subseteq { r \in HeightRequests(rpc') : serversStarted # 0 }
              /\ serversStarted # 0 =>
                   /\ { r.height : r \in HeightRequests(rpc') }
                        = { r.height : r \in HeightRequests(rpc) } \cup want
                   /\ rpc \subseteq rpc'
      /\ \A r \in HeightRequests(rpc) \ HeightRequests(rpc') :
           mainchainByHeight' # mainchainByHeight =>
             /\ r.height \in DOMAIN mainchainByHeight'
             /\ mainchainByHeight'[r.height].id \in DOMAIN mainchainByHash'
             /\ mainchainByHash'[mainchainByHeight'[r.height].id].height = r.height]_vars

\* One miner data message MaxAdvance blocks ahead, and the height skipped
\* has been asked for and answered.
C26_GapFilled ==
  /\ zmqEvents = 1
  /\ Len(stored) = 2
  /\ stored[2].height = SteadyHeight + MaxAdvance
  /\ HeightRequests(rpc) = {}
  /\ SteadyHeight + 1 \in DOMAIN mainchainByHeight
  /\ mainchainByHeight[SteadyHeight + 1].reward # 0

\* ------------------------------------------------- the unknown template
\* What was stored asks for a template BlockTemplate does not have.
UnknownTemplate(d) == d.blob = << >> /\ Len(get_block_template_blob(d.template_id).blob) = 0

\* C27: the dispatch of a submit whose template id BlockTemplate does not
\* know sends no submit_block request and changes nothing but the pending
\* wake, and no request is ever sent for what such a call stored.
C27_UnknownTemplateDropped ==
  /\ [][(submitBlockAsync /\ ~submitBlockAsync' /\ UnknownTemplate(submitBlockData)) =>
          UNCHANGED << procVars, rpcVars, indexVars, tmplVars, srvVars, ledgerVars,
                       zmqVars, submitBlockData, submitCaller, submitCalls, submitPosted,
                       submitInFlight, submitSent, fnVars, stopVars, wakeVars >>]_vars
  /\ [](\A i \in 1..Len(submitSent) :
          submitSent[i].posted \in 1..Len(submitPosted)
            => ~UnknownTemplate(submitPosted[submitSent[i].posted]))

\* One call with the unknown template id has been dispatched and nothing
\* was sent.
C27_UnknownDispatched ==
  /\ submitCalls = 1
  /\ submitCaller = 0
  /\ ~submitBlockAsync
  /\ UnknownTemplate(submitPosted[1])
  /\ submitSent = << >>

\* ------------------------------------------------ telemetry and the index
\* C28: load_found_blocks and api_update_block_found, with the
\* api_update_stats_mod they end in, leave m_mainchainByHeight and
\* m_mainchainByHash as they were.
C28_TelemetryKeepsIndex ==
  [][fnInput.fn \in {"load_found_blocks", "api_update_block_found"}
       => UNCHANGED << mainchainByHeight, mainchainByHash >>]_vars

\* --------------------------------------------------- the previous seed
\* C29: the stratum and the P2P server exist only when the hasher has been
\* given its previous seed by the callback of the previous-epoch seed header.
C29_OldSeedBeforeServers ==
  (servers.stratum > 0 \/ servers.p2p > 0) => hasher.old_seed_set

\* ------------------------------------------------ the id of a found block
\* C30: every FoundBlock that handle_chain_main records carries the hash of
\* the main-chain block at its height, never the zero id, and that block's
\* difficulty.
C30_FoundIdNeverZero ==
  \A i \in 1..Len(foundBlocks) :
    /\ foundBlocks[i].id # ZeroHash
    /\ \E f \in Forks : foundBlocks[i].id = BlockId(foundBlocks[i].height, f)
    /\ foundBlocks[i].block_diff = BlockDifficulty(foundBlocks[i].height)

=============================================================================
